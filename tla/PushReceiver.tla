---------------------------- MODULE PushReceiver ----------------------------
(***************************************************************************)
(* Event delivery (eufy_event_gateway/src/mega/push.ts): one attempt after *)
(* another to load the stored state, obtain a Firebase identity, log in    *)
(* and register the token with Eufy; what the provider is told of it; and  *)
(* the identities of received messages, kept in memory and saved to disk.  *)
(*                                                                         *)
(* The receiver owns a PushClient.  Its callbacks run inside the client's  *)
(* events, so both change in one step.  An attempt continues in microtasks *)
(* once its await has settled, before any other event.  The provider       *)
(* replaces a receiver after close() has returned; the process may crash   *)
(* at any time.  Every message carries an event, and a message is old when *)
(* it was sent well before the current start.                              *)
(***************************************************************************)
EXTENDS PushClient

CONSTANTS
  Identities,   \* Firebase identities a registrar can give
  Retries       \* length of RETRY_DELAYS

ASSUME ReceiverAssumption == Retries \in Nat /\ None \notin Identities

VARIABLES
  phase,            \* "down", "running" while the lifetime is active, "closing"
  step,             \* the await at which the attempt stands
  failures,         \* attempts that failed since the start or the last outage
  retryTimer,
  loaded, attached, \* state loaded, client created
  registered, reregister, connected, disconnected, failed,
  published,        \* what onReceiverState was told last
  state,            \* #state: credentials and persistentIds
  saving,           \* a save is queued
  draft,            \* what the running save writes
  disk,             \* mega-push.json
  old,              \* messages sent well before this start
  handed,           \* history: messages given to onEvent, until their identity
                    \* is lost with the process or leaves the window
  repeated          \* history: one of them was given to it again

flagVars == <<registered, reregister, connected, disconnected, failed>>
attemptVars == <<step, failures, retryTimer, loaded, attached>>
diskVars == <<saving, draft, disk>>
historyVars == <<old, handed, repeated>>
rvars == <<clientVars, phase, flagVars, attemptVars, published, state, diskVars,
           historyVars>>

Stored == [creds : Identities \cup {None}, ids : Lists]
Blank == [creds |-> None, ids |-> <<>>]
Steps == {"none", "load", "credentials", "login", "wait", "register"}

\* Every variable keeps its type, whatever the peers do and whenever the
\* process dies.
RTypeOK ==
  /\ ClientTypeOK
  /\ phase \in {"down", "running", "closing"}
  /\ step \in Steps /\ failures \in 0..(Retries + 1) /\ retryTimer \in BOOLEAN
  /\ loaded \in BOOLEAN /\ attached \in BOOLEAN
  /\ registered \in BOOLEAN /\ reregister \in BOOLEAN /\ connected \in BOOLEAN
  /\ disconnected \in BOOLEAN /\ failed \in BOOLEAN
  /\ published \in {"starting", "connected", "degraded", "disconnected", "stopped"}
  /\ state \in Stored /\ disk \in Stored
  /\ saving \in BOOLEAN /\ draft \in Stored \cup {None}
  /\ old \subseteq sent /\ handed \subseteq Messages
  /\ repeated \in BOOLEAN

RInit ==
  /\ ClientInit
  /\ phase = "down" /\ step = "none" /\ failures = 0 /\ retryTimer = FALSE
  /\ loaded = FALSE /\ attached = FALSE
  /\ registered = FALSE /\ reregister = FALSE /\ connected = FALSE
  /\ disconnected = FALSE /\ failed = FALSE
  /\ published = "stopped"
  /\ state = Blank /\ disk = Blank /\ saving = FALSE /\ draft = None
  /\ old = {} /\ handed = {} /\ repeated = FALSE

Running == phase = "running"

(***************************************************************************)
(* One attempt.                                                            *)
(***************************************************************************)

\* A bug of AttemptFails: one delay too few.
AttemptFailsEarly ==
  /\ step' = "none" /\ failed' = TRUE /\ failures' = failures + 1
  /\ retryTimer' = (failures' < Retries)
  /\ published' = IF disconnected THEN published ELSE "degraded"

\* The catch block.  An attempt counts once, whenever the code counts it.
AttemptFails ==
  /\ step' = "none" /\ failed' = TRUE
  /\ failures' = failures + 1
  /\ retryTimer' = (failures' <= Retries)
  /\ published' = IF disconnected THEN published ELSE "degraded"

\* A bug of Attach: without setPersistentIds.
AttachBlank(s, known) == Open(<<>>, s, known) /\ attached' = TRUE /\ step' = "login"

\* A new client, attachReceiver and connect(), in one stretch.
Attach(s, known) ==
  /\ Open(state'.ids, s, known)
  /\ attached' = TRUE /\ step' = "login"

\* start() of a new receiver, whose fields are still as Gone left them; earlier
\* messages may count as old.
Start ==
  /\ phase = "down"
  /\ phase' = "running" /\ step' = "load" /\ published' = "starting"
  /\ old' \in {S \in SUBSET sent : old \subseteq S}
  /\ UNCHANGED <<clientVars, flagVars, failures, retryTimer, loaded, attached, state,
                 diskVars, handed, repeated>>

\* A bug of Load: a file that cannot be read counts as empty.
LoadLenient ==
  /\ step = "load" /\ step' = "credentials"
  /\ state' = Blank /\ loaded' = TRUE
  /\ UNCHANGED <<clientVars, phase, flagVars, failures, retryTimer, attached, published,
                 diskVars, historyVars>>

\* loadState has read the file; what it does not name is lost.
Load ==
  /\ step = "load"
  /\ state' = disk /\ loaded' = TRUE
  /\ handed' = handed \cap Range(disk.ids)
  /\ IF disk.creds = None
       THEN step' = "credentials" /\ UNCHANGED <<attached, clientVars>>
       ELSE \E s \in Sockets : Attach(s, TRUE)
  /\ UNCHANGED <<phase, flagVars, failures, retryTimer, published, diskVars, old,
                 repeated>>

\* The registrar gives a new identity, which is saved.  The server holds
\* nothing for it yet.
GotCredentials(i) ==
  /\ step = "credentials"
  /\ state' = [state EXCEPT !.creds = i]
  /\ saving' = TRUE
  /\ \E s \in Sockets : Attach(s, FALSE)
  /\ UNCHANGED <<phase, flagVars, failures, retryTimer, loaded, published, draft, disk,
                 historyVars>>

\* The file cannot be read, the registrar or Eufy refuses, or the login
\* takes longer than waitForReceiverReady allows.
StepFails ==
  /\ step \in {"load", "credentials", "login", "register"}
  /\ AttemptFails
  /\ UNCHANGED <<clientVars, phase, registered, reregister, connected, disconnected,
                 loaded, attached, state, diskVars, historyVars>>

\* A bug of Registered: the connection is not looked at.
RegisteredBlindly ==
  /\ step = "register" /\ step' = "none"
  /\ registered' = TRUE /\ published' = "connected"
  /\ UNCHANGED <<clientVars, phase, reregister, connected, disconnected, failed, failures,
                 retryTimer, loaded, attached, state, diskVars, historyVars>>

Registered ==
  /\ step = "register"
  /\ step' = "none" /\ registered' = TRUE
  /\ published' = IF connected THEN "connected" ELSE published
  /\ UNCHANGED <<clientVars, phase, reregister, connected, disconnected, failed,
                 failures, retryTimer, loaded, attached, state, diskVars, historyVars>>

\* The next attempt goes to the first thing that is still missing.
RetryTimerFires ==
  /\ retryTimer
  /\ retryTimer' = FALSE
  /\ step' = IF ~loaded THEN "load"
             ELSE IF state.creds = None THEN "credentials"
             ELSE IF connected THEN "register" ELSE "wait"
  /\ UNCHANGED <<clientVars, phase, registered, reregister, connected, disconnected,
                 failed, failures, loaded, attached, published, state, diskVars,
                 historyVars>>

(***************************************************************************)
(* The client's events.                                                    *)
(***************************************************************************)

\* "connect": a new attempt after an outage, or the one that waits goes on.
OnConnect ==
  /\ connected' = TRUE /\ disconnected' = FALSE /\ reregister' = FALSE
  /\ step' = IF reregister \/ step \in {"login", "wait"} THEN "register" ELSE step
  /\ IF reregister
       THEN /\ failures' = 0 /\ failed' = FALSE
            /\ UNCHANGED published
       ELSE /\ UNCHANGED <<failures, failed>>
            /\ published' = IF registered THEN "connected"
                            ELSE IF failed THEN "degraded" ELSE published
  /\ UNCHANGED <<phase, registered, retryTimer, loaded, attached, state, diskVars,
                 historyVars>>

\* A bug of OnDisconnect: every outage asks for another registration.
OnDisconnectAlways ==
  /\ reregister' = TRUE
  /\ registered' = FALSE /\ connected' = FALSE /\ disconnected' = TRUE
  /\ published' = "disconnected"
  /\ UNCHANGED <<phase, failed, attemptVars, state, diskVars, historyVars>>

\* "disconnect".
OnDisconnect ==
  /\ reregister' = (reregister \/ registered)
  /\ registered' = FALSE /\ connected' = FALSE /\ disconnected' = TRUE
  /\ published' = "disconnected"
  /\ UNCHANGED <<phase, failed, attemptVars, state, diskVars, historyVars>>

Suppressed(m) == ~registered /\ m \in old

RecordPersistentId(m) ==
  IF m \in Range(state.ids)
    THEN UNCHANGED <<state, saving>>
    ELSE /\ state' = [state EXCEPT !.ids = Remember(@, m)]
         /\ saving' = TRUE

\* "message": the client has found no duplicate.
OnMessage(m) ==
  LET pushedOut == IF Len(state.ids) = Window THEN {Head(state.ids)} ELSE {}
      given == IF Suppressed(m) THEN {} ELSE {m}
  IN /\ RecordPersistentId(m)
     /\ handed' = (handed \ pushedOut) \cup given
     /\ repeated' = (repeated \/ given \cap handed # {})
     /\ UNCHANGED <<phase, flagVars, attemptVars, published, draft, disk, old>>

receiverVars == <<phase, flagVars, attemptVars, published, state, diskVars, historyVars>>

ClientConnects == LoginAccepted /\ OnConnect

ClientCloses(s) ==
  /\ SocketClosed(s)
  /\ IF s = socket /\ ~closing THEN OnDisconnect ELSE UNCHANGED receiverVars

ClientReceives(m) ==
  /\ DataMessage(m)
  /\ IF Duplicate(m) THEN UNCHANGED receiverVars ELSE OnMessage(m)

\* What the receiver does not hear of.
ClientAlone ==
  /\ \/ SecureConnect \/ FatalFrame \/ KeepAliveFrame
     \/ LoginTimerFires \/ HeartbeatFires \/ ReplyTimerFires
     \/ \E s \in Sockets : ReconnectTimerFires(s) \/ FallSilent(s)
     \/ \E m \in Messages : Send(m)
  /\ UNCHANGED receiverVars

(***************************************************************************)
(* Saves, the end of the receiver and of the process.                      *)
(***************************************************************************)

\* A queued save writes the state it finds when its turn comes, so one stands
\* for all that are queued.
BeginSave ==
  /\ saving /\ draft = None
  /\ saving' = FALSE /\ draft' = state
  /\ UNCHANGED <<clientVars, phase, flagVars, attemptVars, published, state, disk,
                 historyVars>>

\* The rename; or the save fails and leaves the file as it was.
EndSave ==
  /\ draft # None
  /\ draft' = None
  /\ disk' \in {draft, disk}
  /\ UNCHANGED <<clientVars, phase, flagVars, attemptVars, published, state, saving,
                 historyVars>>

\* close(): everything owned is retired, then the saves are awaited.
CloseReceiver ==
  /\ Running
  /\ phase' = "closing" /\ step' = "none" /\ retryTimer' = FALSE
  /\ registered' = FALSE /\ reregister' = FALSE /\ connected' = FALSE
  /\ published' = "stopped"
  /\ attached' = FALSE
  /\ IF attached THEN Close ELSE UNCHANGED clientVars
  /\ UNCHANGED <<disconnected, failed, failures, loaded, state, diskVars,
                 historyVars>>

\* The receiver exists no more.
Gone ==
  /\ phase' = "down" /\ step' = "none" /\ failures' = 0 /\ retryTimer' = FALSE
  /\ loaded' = FALSE /\ attached' = FALSE
  /\ registered' = FALSE /\ reregister' = FALSE /\ connected' = FALSE
  /\ disconnected' = FALSE /\ failed' = FALSE
  /\ published' = "stopped" /\ state' = Blank

CloseReturns ==
  /\ phase = "closing" /\ ~saving /\ draft = None
  /\ Gone
  /\ UNCHANGED <<clientVars, diskVars, historyVars>>

Crash ==
  /\ phase # "down"
  /\ ClientCrash /\ Gone
  /\ saving' = FALSE /\ draft' = None
  /\ UNCHANGED <<disk, historyVars>>

RNext ==
  \/ Start \/ Load \/ StepFails \/ Registered \/ RetryTimerFires
  \/ \E i \in Identities : GotCredentials(i)
  \/ ClientConnects \/ ClientAlone
  \/ \E s \in Sockets : ClientCloses(s)
  \/ \E m \in Messages : ClientReceives(m)
  \/ BeginSave \/ EndSave \/ CloseReceiver \/ CloseReturns \/ Crash

\* The event loop fires timers and reports the end of a destroyed socket; a
\* request to Eufy and the first login carry timeouts of their own.
RFairness ==
  /\ WF_rvars(LoginTimerFires /\ UNCHANGED receiverVars)
  /\ WF_rvars(HeartbeatFires /\ UNCHANGED receiverVars)
  /\ WF_rvars(ReplyTimerFires /\ UNCHANGED receiverVars)
  /\ WF_rvars((\E s \in Sockets : ReconnectTimerFires(s)) /\ UNCHANGED receiverVars)
  /\ \A s \in Sockets : WF_rvars(net[s] = "destroyed" /\ ClientCloses(s))
  /\ WF_rvars(StepFails \/ Registered) /\ WF_rvars(RetryTimerFires)

RSpec == RInit /\ [][RNext]_rvars
FairRSpec == RSpec /\ RFairness

(***************************************************************************)
(* Properties.                                                             *)
(***************************************************************************)

\* What the provider was told is so: "connected" means logged in and
\* registered, and a connection on which nobody is registering any more is
\* reported as degraded (#publish in the attempt and in the callbacks, which
\* each see only a part of the flags).
ReportedState ==
  Running =>
    /\ published = "connected" <=> connected /\ registered
    /\ step = "none" /\ connected /\ ~registered => published = "degraded"

\* Never two attempts at once, and never none while there is something to do:
\* an unregistered receiver is in an attempt, waits for the retry timer or
\* the next login, or has used its retries (#runAttempt is called from start,
\* from the retry timer and from the connect callback).
OneAttempt ==
  /\ retryTimer => Running /\ step = "none" /\ ~registered /\ ~reregister
  /\ reregister => step = "none" /\ ~registered /\ ~connected
  /\ registered => step = "none"
  /\ Running => \/ step # "none" \/ retryTimer \/ reregister \/ registered
                \/ failures > Retries

\* No event is handed on again as long as its identity was not lost with the
\* process before it was saved, nor pushed out of the window; whatever the
\* server delivers again, after restarts too (handleDataMessage,
\* #recordPersistentId, #persistState).
HandedOnOnce == ~repeated

\* A receiver that stays connected is registered in the end or has used its
\* retries: no attempt is lost between outage, retry timer and login.
RegistrationResumes ==
  connected /\ ~registered ~> ~connected \/ registered \/ failures > Retries

\* A new Firebase identity, which would leave the messages of the old one
\* behind, is asked for only when no other is stored or about to be (start():
\* "Later attempts ... never replace an established Firebase identity").
NoSecondIdentity ==
  step = "credentials" => disk.creds = None /\ draft = None /\ ~saving

\* "An established transport reconnect repeats token registration before the
\* receiver becomes ready again" (the comment of MegaPushReceiver): readiness
\* is only ever reported by a registration.
ReadyByRegistration ==
  [][published # "connected" /\ published' = "connected" => step = "register"]_rvars

=============================================================================
