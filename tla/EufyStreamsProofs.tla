-------------------------- MODULE EufyStreamsProofs --------------------------
(***************************************************************************)
(* Safety of EufyStreams for every set of calls and sessions, with or      *)
(* without sessions that end by themselves.                                *)
(***************************************************************************)
EXTENDS EufyStreams, FiniteSetTheorems, TLAPS

USE DEF ticketVars, stopVars, Live

-----------------------------------------------------------------------------
(* Types *)

\* The parts of the handlers keep every variable in its type.
LEMMA ClosePeerTypes ==
  ASSUME PTypeOK, NEW s \in Sources \cup {None}, ClosePeer(s)
  PROVE  peer' \in [Sources -> Live \cup {"closing", "closed"}]
         /\ ended' \subseteq Sources
BY DEF ClosePeer, PTypeOK

\* Settling a ticket keeps every variable in its type (startStream).
LEMMA SettleTypes ==
  ASSUME PTypeOK, NEW c \in Calls, NEW r \in {"resolved", "rejected"},
         SettleTicket(c, r)
  PROVE  /\ ticket' \in Calls \cup {None} /\ cancelled' \subseteq Calls
         /\ job' \in [Calls -> Jobs] /\ session' \in [Calls -> Sources \cup {None}]
         /\ joined' \in [Calls -> Calls \cup {None}]
         /\ outcome' \in [Calls -> {"none", "pending", "resolved", "rejected"}]
BY DEF SettleTicket, PTypeOK, Jobs

\* What stays as it is in the steps of a ticket that waits.
LEMMA AdvanceTypes ==
  ASSUME PTypeOK, NEW c \in Calls, NEW j \in Jobs, Advance(c, j),
         session' \in [Calls -> Sources \cup {None}],
         entry' \in Sources \cup {None},
         peer' \in [Sources -> Live \cup {"closing", "closed"}],
         ended' \subseteq Sources
  PROVE  PTypeOK'
BY DEF Advance, PTypeOK

\* So do the steps of a start (startStream, #startStreamOnce).
LEMMA TicketTypes ==
  ASSUME PTypeOK, NEW c \in Calls,
         \/ TicketFails(c) \/ ReadKeys(c) \/ ReplacePrevious(c) \/ ReadCipher(c)
         \/ Connected(c) \/ ConnectFails(c)
         \/ \E s \in Sources : Connect(c, s)
         \/ \E result \in {"resolved", "rejected"} : CallSettles(c, result)
  PROVE  PTypeOK'
<1>1. CASE TicketFails(c)
  BY <1>1, SettleTypes DEF TicketFails, PTypeOK
<1>2. CASE ReadKeys(c) \/ ReadCipher(c)
  BY <1>2, AdvanceTypes DEF ReadKeys, ReadCipher, PTypeOK, Jobs
<1>3. CASE ReplacePrevious(c)
  <2>1. session' \in [Calls -> Sources \cup {None}] /\ entry' \in Sources \cup {None}
    BY <1>3 DEF ReplacePrevious, PTypeOK
  <2>2. QED
    BY <1>3, <2>1, AdvanceTypes, ClosePeerTypes DEF ReplacePrevious, Jobs
<1>4. CASE Connected(c)
  BY <1>4, SettleTypes DEF Connected, PTypeOK
<1>5. CASE ConnectFails(c)
  <2>1. entry' \in Sources \cup {None}
    BY <1>5 DEF ConnectFails, PTypeOK
  <2>2. peer' \in [Sources -> Live \cup {"closing", "closed"}] /\ ended' \subseteq Sources
    <3>1. session[c] \in Sources \cup {None}
      BY DEF PTypeOK
    <3>2. QED BY <1>5, <3>1, ClosePeerTypes DEF ConnectFails
  <2>3. QED BY <1>5, <2>1, <2>2, SettleTypes DEF ConnectFails, PTypeOK
<1>6. ASSUME NEW s \in Sources, Connect(c, s) PROVE PTypeOK'
  BY <1>6, AdvanceTypes DEF Connect, PTypeOK, Jobs
<1>7. ASSUME NEW r \in {"resolved", "rejected"}, CallSettles(c, r) PROVE PTypeOK'
  BY <1>7 DEF CallSettles, PTypeOK
<1>8. QED BY <1>1, <1>2, <1>3, <1>4, <1>5, <1>6, <1>7

\* So do the events of a session (FirstPartyPpcsSession.close, #finalizeStream).
LEMMA PeerTypes ==
  ASSUME PTypeOK, NEW s \in Sources,
         \/ PeerEnds(s) \/ PeerDrained(s) \/ Finalize(s)
         \/ \E heard \in BOOLEAN : OutputEnds(s, heard)
  PROVE  PTypeOK'
<1>1. CASE PeerEnds(s)
  BY <1>1, ClosePeerTypes DEF PeerEnds, PTypeOK
<1>2. CASE PeerDrained(s)
  BY <1>2 DEF PeerDrained, PTypeOK
<1>3. CASE Finalize(s)
  BY <1>3 DEF Finalize, PTypeOK
<1>4. CASE \E heard \in BOOLEAN : OutputEnds(s, heard)
  BY <1>4 DEF OutputEnds, PTypeOK
<1>5. QED BY <1>1, <1>2, <1>3, <1>4

\* So do the steps of stopStream and the answers to callers.
LEMMA StopTypes ==
  ASSUME PTypeOK, StopStream \/ StopDrained \/ StopResolves
  PROVE  PTypeOK'
<1>1. CASE StopStream
  <2>1. peer' \in [Sources -> Live \cup {"closing", "closed"}] /\ ended' \subseteq Sources
    <3>1. entry \in Sources \cup {None}
      BY DEF PTypeOK
    <3>2. QED BY <1>1, <3>1, ClosePeerTypes DEF StopStream
  <2>2. QED BY <1>1, <2>1 DEF StopStream, PTypeOK
<1>2. CASE StopDrained \/ StopResolves
  BY <1>2 DEF StopDrained, StopResolves, PTypeOK
<1>3. QED BY <1>1, <1>2

\* PTypeOK is inductive.
LEMMA TypeStep == PTypeOK /\ [PNext]_pvars => PTypeOK'
<1> SUFFICES ASSUME PTypeOK, [PNext]_pvars PROVE PTypeOK'
  OBVIOUS
<1>1. ASSUME NEW c \in Calls, StartStream(c) PROVE PTypeOK'
  BY <1>1 DEF StartStream, PTypeOK, Jobs
<1>2. CASE UNCHANGED pvars
  BY <1>2 DEF pvars, PTypeOK
<1>3. QED BY <1>1, <1>2, TicketTypes, PeerTypes, StopTypes DEF PNext

\* Tickets, sessions and stops keep their types.
THEOREM ProviderTypeCorrect == PSpec => []PTypeOK
<1>1. PInit => PTypeOK
  BY DEF PInit, PTypeOK, Jobs
<1>2. QED BY <1>1, TypeStep, PTL DEF PSpec

-----------------------------------------------------------------------------
(* One live session *)

\* A ticket that is past the key read has no live session to compete with, and
\* two connecting tickets never share a session.
ConnectInv ==
  /\ LivePeerIsEntry
  /\ CancelledStartHoldsNothing
  /\ \A c \in Calls :
       job[c] \in {"replacing", "ciphers"} /\ Current(c)
         => \A s \in Sources : peer[s] \notin Live
  /\ \A c, d \in Calls :
       job[c] = "connecting" /\ job[d] = "connecting" /\ session[c] = session[d]
         => c = d
  /\ \A c \in Calls : job[c] = "connecting" => session[c] # None

\* Closing the entry leaves no live session.
LEMMA CloseEntry ==
  ASSUME PTypeOK, LivePeerIsEntry, ClosePeer(entry)
  PROVE  \A s \in Sources : peer'[s] \notin Live
BY NamesAssumption DEF ClosePeer, LivePeerIsEntry, PTypeOK

\* Steps after which fewer sessions are live and no ticket is further on.
LEMMA ConnectKept ==
  ASSUME PTypeOK, ConnectInv,
         \A s \in Sources : peer'[s] \in Live => peer[s] \in Live /\ entry' = entry,
         ticket' = ticket \/ ticket' = None,
         \A c \in cancelled \ cancelled' : job'[c] = "none",
         \A c \in cancelled' \ cancelled :
            job'[c] = "connecting" => peer'[session'[c]] \notin Live,
         \A c \in Calls : job'[c] = "connecting" =>
                           job[c] = "connecting" /\ session'[c] = session[c],
         \A c \in Calls : job'[c] \in {"replacing", "ciphers"} => job'[c] = job[c]
  PROVE  ConnectInv'
<1> USE DEF ConnectInv
<1>1. LivePeerIsEntry'
  BY DEF LivePeerIsEntry
<1>2. CancelledStartHoldsNothing'
  BY DEF CancelledStartHoldsNothing, PTypeOK
<1>3. \A c \in Calls :
        job'[c] \in {"replacing", "ciphers"} /\ Current(c)'
          => \A s \in Sources : peer'[s] \notin Live
  BY NamesAssumption DEF Current
<1>4. QED BY <1>1, <1>2, <1>3

\* The steps of a start keep the one live session findable (#startStreamOnce).
LEMMA TicketConnect ==
  ASSUME PTypeOK, ConnectInv, NEW c \in Calls,
         \/ TicketFails(c) \/ ReadKeys(c) \/ ReplacePrevious(c) \/ ReadCipher(c)
         \/ Connected(c) \/ ConnectFails(c)
         \/ \E s \in Sources : Connect(c, s)
         \/ \E result \in {"resolved", "rejected"} : CallSettles(c, result)
  PROVE  ConnectInv'
<1>1. CASE TicketFails(c)
  <2>1. \A d \in Calls : job'[d] = IF d = c THEN "none" ELSE job[d]
    BY <1>1 DEF TicketFails, SettleTicket, PTypeOK
  <2>2. \A d \in Calls \ {c} : session'[d] = session[d]
    BY <1>1 DEF TicketFails, SettleTicket, PTypeOK
  <2>3. QED
    BY <1>1, <2>1, <2>2, ConnectKept DEF TicketFails, SettleTicket
<1>2. CASE ReadKeys(c)
  <2>1. \A d \in Calls : job'[d] = IF d = c THEN "keys" ELSE job[d]
    BY <1>2 DEF ReadKeys, Advance, PTypeOK
  <2>2. QED BY <1>2, <2>1, ConnectKept DEF ReadKeys, Advance
<1>3. CASE ReplacePrevious(c)
  <2>1. \A s \in Sources : peer'[s] \notin Live
    BY <1>3, CloseEntry DEF ReplacePrevious, ConnectInv
  <2>2. \A d \in Calls : job'[d] = "connecting" =>
                         job[d] = "connecting" /\ session'[d] = session[d]
    BY <1>3 DEF ReplacePrevious, Advance, PTypeOK
  <2>3. \A d \in cancelled : job'[d] = "connecting" => peer'[session'[d]] \notin Live
    BY <2>1, <2>2, NamesAssumption DEF ConnectInv, PTypeOK
  <2>4. QED
    BY <1>3, <2>1, <2>2, <2>3
    DEF ReplacePrevious, Advance, ConnectInv, LivePeerIsEntry,
        CancelledStartHoldsNothing
<1>4. CASE ReadCipher(c)
  <2>1. \A d \in Calls : job'[d] = IF d = c THEN "ciphers" ELSE job[d]
    BY <1>4 DEF ReadCipher, Advance, PTypeOK
  <2>2. QED
    BY <1>4, <2>1
    DEF ReadCipher, Advance, Current, ConnectInv, LivePeerIsEntry,
        CancelledStartHoldsNothing
<1>5. CASE Connected(c)
  <2>1. /\ session[c] \in Sources /\ peer[session[c]] = "opening"
        /\ peer' = [peer EXCEPT ![session[c]] = "open"]
    BY <1>5 DEF Connected, ConnectInv, PTypeOK
  <2>2. \A s \in Sources : peer'[s] \in Live <=> peer[s] \in Live
    BY <2>1 DEF PTypeOK
  <2>3. \A d \in Calls : job'[d] = IF d = c THEN "none" ELSE job[d]
    BY <1>5 DEF Connected, SettleTicket, PTypeOK
  <2>4. \A d \in Calls \ {c} : session'[d] = session[d]
    BY <1>5 DEF Connected, SettleTicket, PTypeOK
  <2>5. QED
    BY <1>5, <2>2, <2>3, <2>4, ConnectKept DEF Connected, SettleTicket
<1>6. CASE ConnectFails(c)
  <2>1. session[c] \in Sources
    BY <1>6 DEF ConnectFails, ConnectInv, PTypeOK
  <2>2. \A s \in Sources : peer'[s] \in Live => peer[s] \in Live /\ s # session[c]
    BY <1>6, <2>1, NamesAssumption DEF ConnectFails, ClosePeer, PTypeOK
  <2>3. \A s \in Sources : peer'[s] \in Live => peer[s] \in Live /\ entry' = entry
    BY <1>6, <2>2 DEF ConnectFails, ConnectInv, LivePeerIsEntry
  <2>4. \A d \in Calls : job'[d] = IF d = c THEN "none" ELSE job[d]
    BY <1>6 DEF ConnectFails, SettleTicket, PTypeOK
  <2>5. \A d \in Calls \ {c} : session'[d] = session[d]
    BY <1>6 DEF ConnectFails, SettleTicket, PTypeOK
  <2>6. QED
    BY <1>6, <2>3, <2>4, <2>5, ConnectKept DEF ConnectFails, SettleTicket
<1>7. ASSUME NEW s \in Sources, Connect(c, s) PROVE ConnectInv'
  <2>1. \A x \in Sources : peer[x] \notin Live
    BY <1>7 DEF Connect, ConnectInv
  <2>2. \A x \in Sources : peer'[x] \in Live => x = s
    BY <1>7, <2>1 DEF Connect, PTypeOK
  <2>3. LivePeerIsEntry'
    BY <1>7, <2>2 DEF Connect, LivePeerIsEntry
  <2>4. \A d \in Calls : /\ job'[d] = IF d = c THEN "connecting" ELSE job[d]
                         /\ session'[d] = IF d = c THEN s ELSE session[d]
    BY <1>7 DEF Connect, Advance, PTypeOK
  <2>5. \A d \in Calls : session[d] # s
    BY <1>7 DEF Connect, FreePeer
  <2>6. CancelledStartHoldsNothing'
    <3>1. c \notin cancelled' /\ cancelled' = cancelled
      BY <1>7 DEF Connect, Current, Advance
    <3>2. ASSUME NEW d \in cancelled', job'[d] = "connecting"
          PROVE  peer'[session'[d]] \notin Live
      <4>1. d # c /\ job[d] = "connecting" /\ session'[d] = session[d]
            /\ session[d] \in Sources
        BY <2>4, <3>1, <3>2 DEF PTypeOK, ConnectInv
      <4>2. QED BY <2>2, <2>5, <3>1, <4>1 DEF PTypeOK
    <3>3. QED BY <3>2 DEF CancelledStartHoldsNothing
  <2>7. \A d \in Calls : ~(job'[d] \in {"replacing", "ciphers"} /\ Current(d)')
    BY <1>7, <2>4 DEF Connect, Current, Advance
  <2>8. QED
    BY <2>3, <2>4, <2>5, <2>6, <2>7, NamesAssumption DEF ConnectInv
<1>8. ASSUME NEW r \in {"resolved", "rejected"}, CallSettles(c, r) PROVE ConnectInv'
  BY <1>8, ConnectKept DEF CallSettles
<1>9. QED BY <1>1, <1>2, <1>3, <1>4, <1>5, <1>6, <1>7, <1>8

\* The events of a session do too (#finalizeStream).
LEMMA PeerConnect ==
  ASSUME PTypeOK, ConnectInv, NEW s \in Sources,
         \/ PeerEnds(s) \/ PeerDrained(s) \/ Finalize(s)
         \/ \E heard \in BOOLEAN : OutputEnds(s, heard)
  PROVE  ConnectInv'
<1>1. CASE PeerEnds(s)
  <2>1. \A x \in Sources : peer'[x] \in Live => peer[x] \in Live
    BY <1>1 DEF PeerEnds, ClosePeer, PTypeOK
  <2>2. QED BY <1>1, <2>1, ConnectKept DEF PeerEnds
<1>2. CASE PeerDrained(s)
  <2>1. \A x \in Sources : peer'[x] \in Live => peer[x] \in Live
    BY <1>2 DEF PeerDrained, PTypeOK
  <2>2. QED BY <1>2, <2>1, ConnectKept DEF PeerDrained
<1>3. CASE Finalize(s)
  <2>1. \A x \in Sources : peer[x] \in Live => entry' = entry
    BY <1>3 DEF Finalize, ConnectInv, LivePeerIsEntry
  <2>2. QED BY <1>3, <2>1, ConnectKept DEF Finalize
<1>4. CASE \E heard \in BOOLEAN : OutputEnds(s, heard)
  BY <1>4, ConnectKept DEF OutputEnds
<1>5. QED BY <1>1, <1>2, <1>3, <1>4

\* So do the steps of stopStream: it cancels the ticket whose session it closes.
LEMMA StopConnect ==
  ASSUME PTypeOK, ConnectInv, StopStream \/ StopDrained \/ StopResolves
  PROVE  ConnectInv'
<1>1. CASE StopStream
  <2>1. \A s \in Sources : peer'[s] \notin Live
    BY <1>1, CloseEntry DEF StopStream, ConnectInv
  <2>2. \A d \in Calls : job[d] = "connecting" => session[d] \in Sources
    BY DEF ConnectInv, PTypeOK
  <2>3. \A d \in cancelled' : d \in Calls
    BY <1>1 DEF StopStream, PTypeOK
  <2>4. cancelled \subseteq cancelled'
    BY <1>1 DEF StopStream
  <2>5. QED
    BY <1>1, <2>1, <2>2, <2>3, <2>4, ConnectKept DEF StopStream
<1>2. CASE StopDrained
  <2>1. \A x \in Sources : peer[x] \in Live => entry' = entry
    BY <1>2 DEF StopDrained, ConnectInv, LivePeerIsEntry
  <2>2. QED BY <1>2, <2>1, ConnectKept DEF StopDrained
<1>3. CASE StopResolves
  BY <1>3, ConnectKept DEF StopResolves
<1>4. QED BY <1>1, <1>2, <1>3

\* So does a new start, which reuses no ticket still at work (startStream).
LEMMA StartConnect ==
  ASSUME PTypeOK, ConnectInv, NEW c \in Calls, StartStream(c)
  PROVE  ConnectInv'
<1>1. CASE ticket # None /\ ticket \notin cancelled
  BY <1>1, ConnectKept DEF StartStream
<1>2. CASE ~(ticket # None /\ ticket \notin cancelled)
  <2>1. /\ ticket' = c /\ cancelled' = cancelled \ {c}
        /\ UNCHANGED <<entry, peer>>
    BY <1>2 DEF StartStream
  <2>2. \A d \in Calls : /\ job'[d] = IF d = c THEN "queued" ELSE job[d]
                         /\ d # c => session'[d] = session[d]
    BY <1>2 DEF StartStream, PTypeOK
  <2>3. QED
    BY <2>1, <2>2
    DEF ConnectInv, LivePeerIsEntry, CancelledStartHoldsNothing, Current, PTypeOK
<1>3. QED BY <1>1, <1>2

\* ConnectInv is inductive.
LEMMA ConnectStep == PTypeOK /\ ConnectInv /\ [PNext]_pvars => ConnectInv'
<1> SUFFICES ASSUME PTypeOK, ConnectInv, [PNext]_pvars PROVE ConnectInv'
  OBVIOUS
<1>1. CASE UNCHANGED pvars
  BY <1>1, ConnectKept DEF pvars
<1>2. QED BY <1>1, StartConnect, TicketConnect, PeerConnect, StopConnect DEF PNext

\* Hence it holds in every state.
LEMMA ConnectCorrect == PSpec => []ConnectInv
<1>1. PInit => ConnectInv
  BY DEF PInit, ConnectInv, LivePeerIsEntry, CancelledStartHoldsNothing
<1>2. QED BY <1>1, ConnectStep, ProviderTypeCorrect, PTL DEF PSpec

\* A live session is always the camera's entry, so a stop or a new start finds
\* it (#startStreamOnce, stopStream).
THEOREM EntryCorrect == PSpec => []LivePeerIsEntry
<1>1. ConnectInv => LivePeerIsEntry
  BY DEF ConnectInv
<1>2. QED BY <1>1, ConnectCorrect, PTL

\* At most one session of a camera is connecting or connected.
THEOREM OnePeerCorrect == PSpec => []OneLivePeer
<1>1. PTypeOK /\ LivePeerIsEntry => OneLivePeer
  <2> SUFFICES ASSUME LivePeerIsEntry PROVE OneLivePeer
    OBVIOUS
  <2> DEFINE L == {s \in Sources : peer[s] \in Live}
  <2>1. L \subseteq {entry}
    BY DEF LivePeerIsEntry
  <2>2. IsFiniteSet({entry}) /\ Cardinality({entry}) = 1
    BY FS_Singleton
  <2>3. Cardinality(L) <= 1
    BY <2>1, <2>2, FS_Subset, FS_CardinalityType
  <2>4. QED BY <2>3 DEF OneLivePeer
<1>2. QED BY <1>1, ProviderTypeCorrect, EntryCorrect, PTL

\* A cancelled start never holds a live session (stopStream, startStream).
THEOREM CancelCorrect == PSpec => []CancelledStartHoldsNothing
<1>1. ConnectInv => CancelledStartHoldsNothing
  BY DEF ConnectInv
<1>2. QED BY <1>1, ConnectCorrect, PTL

-----------------------------------------------------------------------------
(* What everybody waits for *)

\* A ticket at work has the call that began it among its waiters, so its name is
\* not taken again; the ticket in the map is at work.
TicketsAtWork ==
  /\ \A c \in Calls : job[c] # "none" => joined[c] = c /\ outcome[c] = "pending"
  /\ ticket # None => job[ticket] # "none"

WaitInv == NoLostWait /\ TicketsAtWork

\* Steps that open no session.
StayOver == \A s \in Sources : peer[s] \notin Live => peer'[s] \notin Live

\* A closed session stays closed, whatever else is closed (ClosePeer).
LEMMA CloseStaysOver ==
  ASSUME PTypeOK, NEW s \in Sources \cup {None}, ClosePeer(s)
  PROVE  StayOver /\ (s # None => peer'[s] \notin Live)
BY DEF PTypeOK, ClosePeer, StayOver

\* Steps that move no ticket and begin no stop.
LEMMA WaitsKept ==
  ASSUME PTypeOK, WaitInv, StayOver, UNCHANGED ticketVars,
         stopPc' = "draining" => stopPc = "draining" /\ stopTarget' = stopTarget
  PROVE  WaitInv'
BY NamesAssumption DEF PTypeOK, WaitInv, NoLostWait, TicketsAtWork, StayOver

\* A ticket that settles answers all who joined it (startStream).
LEMMA SettleWaits ==
  ASSUME PTypeOK, WaitInv, StayOver, UNCHANGED stopVars, NEW c \in Calls,
         NEW r \in {"resolved", "rejected"}, SettleTicket(c, r)
  PROVE  WaitInv'
<1>1. /\ \A d \in Calls : /\ job'[d] = IF d = c THEN "none" ELSE job[d]
                          /\ d # c => session'[d] = session[d]
                          /\ outcome'[d] = "pending" <=> outcome[d] = "pending" /\ joined[d] # c
      /\ joined' = joined /\ ticket' = IF ticket = c THEN None ELSE ticket
  BY DEF SettleTicket, PTypeOK
<1>2. \A d \in Calls : outcome'[d] = "pending" =>
        joined'[d] # None /\ job'[joined'[d]] # "none"
  BY <1>1 DEF WaitInv, NoLostWait, PTypeOK
<1>3. \A d \in Calls : /\ job'[d] = "replacing" =>
                            session'[d] # None /\ peer'[session'[d]] \notin Live
                       /\ job'[d] = "connecting" => session'[d] # None
  BY <1>1 DEF WaitInv, NoLostWait, StayOver, PTypeOK
<1>4. stopPc' = "draining" => stopTarget' # None /\ peer'[stopTarget'] \notin Live
  BY DEF WaitInv, NoLostWait, StayOver, PTypeOK
<1>5. TicketsAtWork'
  BY <1>1 DEF WaitInv, TicketsAtWork, PTypeOK
<1>6. QED BY <1>2, <1>3, <1>4, <1>5 DEF WaitInv, NoLostWait

\* A ticket at work moves on to another part of its work.
LEMMA AdvanceWaits ==
  ASSUME PTypeOK, WaitInv, NEW c \in Calls, NEW j \in Jobs \ {"none"}, Advance(c, j),
         job[c] # "none",
         \A d \in Calls \ {c} : session'[d] = session[d],
         j = "replacing" => session'[c] # None /\ peer'[session'[c]] \notin Live,
         j = "connecting" => session'[c] # None,
         \A s \in Sources : \/ peer[s] \notin Live => peer'[s] \notin Live
                            \/ FreePeer(s)
  PROVE  WaitInv'
<1>1. /\ \A d \in Calls : job'[d] = IF d = c THEN j ELSE job[d]
      /\ UNCHANGED <<ticket, joined, outcome, stopPc, stopTarget>>
  BY DEF Advance, PTypeOK
<1>2. \A d \in Calls : outcome'[d] = "pending" =>
        joined'[d] # None /\ job'[joined'[d]] # "none"
  BY <1>1 DEF WaitInv, NoLostWait, PTypeOK
<1>3. \A d \in Calls : /\ job'[d] = "replacing" =>
                            session'[d] # None /\ peer'[session'[d]] \notin Live
                       /\ job'[d] = "connecting" => session'[d] # None
  BY <1>1 DEF WaitInv, NoLostWait, FreePeer, PTypeOK
<1>4. stopPc' = "draining" => stopTarget' # None /\ peer'[stopTarget'] \notin Live
  BY <1>1 DEF WaitInv, NoLostWait, FreePeer, PTypeOK
<1>5. TicketsAtWork'
  BY <1>1 DEF WaitInv, TicketsAtWork, PTypeOK
<1>6. QED BY <1>2, <1>3, <1>4, <1>5 DEF WaitInv, NoLostWait

\* The steps of a start leave nobody waiting in vain (#startStreamOnce).
LEMMA TicketWaits ==
  ASSUME PTypeOK, WaitInv, NEW c \in Calls,
         \/ TicketFails(c) \/ ReadKeys(c) \/ ReplacePrevious(c) \/ ReadCipher(c)
         \/ Connected(c) \/ ConnectFails(c)
         \/ \E s \in Sources : Connect(c, s)
         \/ \E result \in {"resolved", "rejected"} : CallSettles(c, result)
  PROVE  WaitInv'
<1>1. CASE TicketFails(c)
  BY <1>1, SettleWaits DEF TicketFails, StayOver
<1>2. CASE ReadKeys(c) \/ ReadCipher(c)
  BY <1>2, AdvanceWaits DEF ReadKeys, ReadCipher, Jobs
<1>3. CASE ReplacePrevious(c)
  <2>1. entry \in Sources \cup {None} /\ ClosePeer(entry) /\ job[c] = "keys"
        /\ session' = [session EXCEPT ![c] = entry]
    BY <1>3 DEF ReplacePrevious, PTypeOK
  <2>2. StayOver /\ (entry # None => peer'[entry] \notin Live)
    BY <2>1, CloseStaysOver
  <2>3. session'[c] = entry /\ \A d \in Calls \ {c} : session'[d] = session[d]
    BY <2>1 DEF PTypeOK
  <2>4. PICK j \in {"ciphers", "replacing"} :
          Advance(c, j) /\ (j = "replacing" => entry # None)
    BY <1>3 DEF ReplacePrevious
  <2>5. QED BY <2>1, <2>2, <2>3, <2>4, AdvanceWaits DEF Jobs, StayOver
<1>4. CASE Connected(c)
  <2>1. StayOver
    BY <1>4 DEF Connected, StayOver, PTypeOK
  <2>2. QED BY <1>4, <2>1, SettleWaits DEF Connected
<1>5. CASE ConnectFails(c)
  <2>1. session[c] \in Sources \cup {None} /\ ClosePeer(session[c])
    BY <1>5 DEF ConnectFails, PTypeOK
  <2>2. QED BY <1>5, <2>1, CloseStaysOver, SettleWaits DEF ConnectFails
<1>6. ASSUME NEW s \in Sources, Connect(c, s) PROVE WaitInv'
  <2>1. /\ session'[c] = s /\ \A d \in Calls \ {c} : session'[d] = session[d]
        /\ Advance(c, "connecting") /\ job[c] = "ciphers" /\ FreePeer(s)
        /\ \A x \in Sources \ {s} : peer'[x] = peer[x]
    BY <1>6 DEF Connect, PTypeOK
  <2>2. s # None /\ "connecting" \in Jobs \ {"none"}
    BY NamesAssumption DEF Jobs
  <2>3. QED BY <2>1, <2>2, AdvanceWaits
<1>7. ASSUME NEW r \in {"resolved", "rejected"}, CallSettles(c, r) PROVE WaitInv'
  <2>1. /\ \A d \in Calls : /\ outcome'[d] = "pending" <=> outcome[d] = "pending"
                            /\ outcome[d] = "pending" => joined'[d] = joined[d]
        /\ UNCHANGED <<ticket, job, session, peer, stopPc, stopTarget>>
    BY <1>7 DEF CallSettles, PTypeOK
  <2>2. QED BY <2>1 DEF WaitInv, NoLostWait, TicketsAtWork
<1>8. QED BY <1>1, <1>2, <1>3, <1>4, <1>5, <1>6, <1>7

\* A new call joins a ticket at work, or one that begins with it (startStream).
LEMMA StartWaits ==
  ASSUME PTypeOK, WaitInv, NEW c \in Calls, outcome[c] = "none", StartStream(c)
  PROVE  WaitInv'
<1>1. /\ job[c] = "none" /\ \A d \in Calls : outcome[d] = "pending" => joined[d] # c
      /\ \A d \in Calls : outcome'[d] = IF d = c THEN "pending" ELSE outcome[d]
      /\ UNCHANGED <<peer, stopPc, stopTarget>>
  BY DEF WaitInv, NoLostWait, TicketsAtWork, StartStream, PTypeOK
<1>2. CASE ticket # None /\ ticket \notin cancelled
  <2>1. /\ \A d \in Calls : joined'[d] = IF d = c THEN ticket ELSE joined[d]
        /\ UNCHANGED <<ticket, job, session>>
    BY <1>2 DEF StartStream, PTypeOK
  <2>2. QED BY <1>1, <1>2, <2>1 DEF WaitInv, NoLostWait, TicketsAtWork
<1>3. CASE ~(ticket # None /\ ticket \notin cancelled)
  <2>1. /\ \A d \in Calls : /\ joined'[d] = IF d = c THEN c ELSE joined[d]
                            /\ job'[d] = IF d = c THEN "queued" ELSE job[d]
                            /\ d # c => session'[d] = session[d]
        /\ ticket' = c
    BY <1>3 DEF StartStream, PTypeOK
  <2>2. NoLostWait'
    BY <1>1, <2>1, NamesAssumption DEF WaitInv, NoLostWait, PTypeOK
  <2>3. QED BY <1>1, <2>1, <2>2 DEF WaitInv, TicketsAtWork
<1>4. QED BY <1>2, <1>3

\* The steps of sessions and of stopStream do neither (#finalizeStream).
LEMMA PeerWaits ==
  ASSUME PTypeOK, WaitInv,
         \/ StopStream \/ StopDrained \/ StopResolves
         \/ \E s \in Sources :
              \/ PeerEnds(s) \/ PeerDrained(s) \/ Finalize(s)
              \/ \E heard \in BOOLEAN : OutputEnds(s, heard)
  PROVE  WaitInv'
<1>1. CASE StopStream
  <2>1. entry \in Sources \cup {None} /\ ClosePeer(entry)
    BY <1>1 DEF StopStream, PTypeOK
  <2>2. StayOver /\ (entry # None => peer'[entry] \notin Live)
    BY <2>1, CloseStaysOver
  <2>3. /\ UNCHANGED <<ticket, job, session, joined, outcome>> /\ stopTarget' = entry
        /\ stopPc' = "draining" => entry # None
    BY <1>1 DEF StopStream
  <2>4. QED
    BY <2>2, <2>3 DEF WaitInv, NoLostWait, TicketsAtWork, StayOver, PTypeOK
<1>2. CASE StopDrained \/ StopResolves
  BY <1>2, WaitsKept DEF StopDrained, StopResolves, StayOver
<1>3. ASSUME NEW s \in Sources, PeerEnds(s) PROVE WaitInv'
  BY <1>3, CloseStaysOver, WaitsKept DEF PeerEnds
<1>4. ASSUME NEW s \in Sources,
             \/ PeerDrained(s) \/ Finalize(s) \/ \E heard \in BOOLEAN : OutputEnds(s, heard)
      PROVE  WaitInv'
  <2>1. StayOver
    BY <1>4 DEF PeerDrained, Finalize, OutputEnds, StayOver, PTypeOK
  <2>2. QED BY <1>4, <2>1, WaitsKept DEF PeerDrained, Finalize, OutputEnds
<1>5. QED BY <1>1, <1>2, <1>3, <1>4

\* WaitInv is inductive.
LEMMA WaitStep == PTypeOK /\ WaitInv /\ [PNext]_pvars => WaitInv'
<1> SUFFICES ASSUME PTypeOK, WaitInv, [PNext]_pvars PROVE WaitInv'
  OBVIOUS
<1>1. CASE UNCHANGED pvars
  BY <1>1, WaitsKept DEF pvars, StayOver
<1>2. QED BY <1>1, StartWaits, TicketWaits, PeerWaits DEF PNext

\* Nothing waits before the first call.
LEMMA WaitInit == PInit => WaitInv
BY DEF PInit, WaitInv, NoLostWait, TicketsAtWork

\* However starts and stops overtake each other, nobody waits for what nobody
\* does (startStream, #startStreamOnce, stopStream).
THEOREM WaitsCorrect == PSpec => []NoLostWait
<1>1. WaitInv => NoLostWait
  BY DEF WaitInv
<1>2. QED BY <1>1, WaitInit, WaitStep, ProviderTypeCorrect, PTL DEF PSpec
=============================================================================
