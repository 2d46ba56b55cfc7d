----------------------------- MODULE PushClient -----------------------------
(***************************************************************************)
(* The Firebase connection of the gateway (eufy_event_gateway/src/mega/    *)
(* android-push/push-client.ts): one TLS socket at a time, guarded by a    *)
(* login timer, a heartbeat with a reply timer, and a reconnect timer.     *)
(*                                                                         *)
(* An action is one event of the socket, one frame, or one timer.  A       *)
(* socket may fall silent: nothing arrives on it any more, not even its    *)
(* end, as when a router drops the connection.  The server keeps a message *)
(* until a login names it, and may deliver it any number of times before.  *)
(* Back-off times and the counting of login failures, which only decide    *)
(* how long a wait is and what is logged, are left out; so are messages    *)
(* without a persistent identity.                                          *)
(***************************************************************************)
EXTENDS Naturals, Sequences, Functions

CONSTANTS
  Sockets,    \* names; one can be used again when it is free
  Messages,   \* persistent identities
  Window,     \* how many received identities are remembered
  None

ASSUME ClientAssumption == Window \in Nat \ {0} /\ None \notin Sockets

VARIABLES
  socket,          \* this.socket
  net,             \* what became of each socket
  silent,          \* sockets on which nothing arrives any more
  loggedIn,
  closing,         \* also while there is no client
  loginTimer,      \* the socket whose login it watches
  heartbeat,       \* the interval is running
  replyTimer,      \* the socket whose reply it awaits
  reconnectTimer,
  received,        \* persistentIds, oldest first
  sent,            \* messages the server has accepted
  held             \* those it still keeps for this client

netVars == <<socket, net, silent>>
timerVars == <<loginTimer, heartbeat, replyTimer, reconnectTimer>>
serverVars == <<sent, held>>
clientVars == <<netVars, timerVars, serverVars, loggedIn, closing, received>>

Lists == {seq \in Seq(Messages) : Len(seq) <= Window}
NetStates == {"free", "connecting", "secure", "destroyed"}

ClientTypeOK ==
  /\ socket \in Sockets \cup {None}
  /\ net \in [Sockets -> NetStates]
  /\ silent \subseteq Sockets
  /\ loggedIn \in BOOLEAN /\ closing \in BOOLEAN
  /\ loginTimer \in Sockets \cup {None}
  /\ replyTimer \in Sockets \cup {None}
  /\ heartbeat \in BOOLEAN /\ reconnectTimer \in BOOLEAN
  /\ received \in Lists
  /\ sent \subseteq Messages /\ held \subseteq Messages

ClientInit ==
  /\ socket = None /\ net = [s \in Sockets |-> "free"] /\ silent = {}
  /\ loggedIn = FALSE /\ closing = TRUE
  /\ loginTimer = None /\ heartbeat = FALSE /\ replyTimer = None
  /\ reconnectTimer = FALSE
  /\ received = <<>> /\ sent = {} /\ held = {}

(***************************************************************************)
(* connect(), and what the handlers share.                                 *)
(***************************************************************************)
Live(s) == net[s] \in {"connecting", "secure"}

\* A frame can arrive on the current socket.
Receiving == socket # None /\ net[socket] = "secure" /\ socket \notin silent

\* A bug of Remember: the list is never cut.
RememberAll(ids, m) == Append(ids, m)

\* The last Window - 1 identities and a new one.
Remember(ids, m) == Append(IF Len(ids) < Window THEN ids ELSE Tail(ids), m)

Destroyed(s) == [net EXCEPT ![s] = IF Live(s) THEN "destroyed" ELSE @]

\* The part of connect() that is the same for a first and a repeated call.
Connect(s) ==
  /\ net[s] = "free"
  /\ socket' = s
  /\ net' = [net EXCEPT ![s] = "connecting"]
  /\ loginTimer' = s
  /\ loggedIn' = FALSE /\ closing' = FALSE

StopHeartbeat == heartbeat' = FALSE /\ replyTimer' = None

\* A new client that remembers ids connects; the server keeps its messages
\* only for an identity it knows.
Open(ids, s, known) ==
  /\ closing
  /\ Connect(s) /\ StopHeartbeat
  /\ reconnectTimer' = FALSE
  /\ received' = ids
  /\ held' = IF known THEN held ELSE {}
  /\ UNCHANGED <<silent, sent>>

(***************************************************************************)
(* Frames.                                                                 *)
(***************************************************************************)
SecureConnect ==
  /\ socket # None /\ net[socket] = "connecting" /\ socket \notin silent
  /\ net' = [net EXCEPT ![socket] = "secure"]
  /\ UNCHANGED <<socket, silent, timerVars, serverVars, loggedIn, closing, received>>

\* The login named the received identities: the server drops those messages.
LoginAccepted ==
  /\ Receiving /\ ~loggedIn
  /\ loggedIn' = TRUE
  /\ loginTimer' = None /\ replyTimer' = None /\ heartbeat' = TRUE
  /\ held' = held \ Range(received)
  /\ UNCHANGED <<netVars, reconnectTimer, sent, closing, received>>

\* A rejected login, a Close frame or a frame that cannot be decoded.
FatalFrame ==
  /\ Receiving
  /\ net' = Destroyed(socket) /\ replyTimer' = None
  /\ UNCHANGED <<socket, silent, loginTimer, heartbeat, reconnectTimer, serverVars,
                 loggedIn, closing, received>>

\* A heartbeat or its answer: any data proves that the connection is alive.
KeepAliveFrame ==
  /\ Receiving /\ loggedIn /\ replyTimer # None
  /\ replyTimer' = None
  /\ UNCHANGED <<netVars, loginTimer, heartbeat, reconnectTimer, serverVars, loggedIn,
                 closing, received>>

Duplicate(m) == m \in Range(received)

DataMessage(m) ==
  /\ Receiving /\ m \in held
  /\ replyTimer' = None
  /\ received' = IF Duplicate(m) THEN received ELSE Remember(received, m)
  /\ UNCHANGED <<netVars, loginTimer, heartbeat, reconnectTimer, serverVars, loggedIn,
                 closing>>

(***************************************************************************)
(* Timers.                                                                 *)
(***************************************************************************)
LoginTimerFires ==
  /\ loginTimer # None
  /\ loginTimer' = None
  /\ net' = IF socket = loginTimer /\ ~loggedIn THEN Destroyed(socket) ELSE net
  /\ UNCHANGED <<socket, silent, heartbeat, replyTimer, reconnectTimer, serverVars,
                 loggedIn, closing, received>>

\* A bug of HeartbeatFires: a ping without a deadline for its answer.
HeartbeatWithoutDeadline == heartbeat /\ loggedIn /\ UNCHANGED clientVars

\* A ping; the reply timer keeps running when an earlier one is unanswered.
HeartbeatFires ==
  /\ heartbeat /\ socket # None /\ loggedIn /\ replyTimer = None
  /\ replyTimer' = socket
  /\ UNCHANGED <<netVars, loginTimer, heartbeat, reconnectTimer, serverVars, loggedIn,
                 closing, received>>

ReplyTimerFires ==
  /\ replyTimer # None
  /\ replyTimer' = None
  /\ net' = IF socket = replyTimer THEN Destroyed(socket) ELSE net
  /\ UNCHANGED <<socket, silent, loginTimer, heartbeat, reconnectTimer, serverVars,
                 loggedIn, closing, received>>

ReconnectTimerFires(s) ==
  /\ reconnectTimer
  /\ reconnectTimer' = FALSE
  /\ IF closing
       THEN UNCHANGED <<socket, net, loginTimer, loggedIn, closing>>
       ELSE Connect(s)
  /\ UNCHANGED <<silent, heartbeat, replyTimer, serverVars, received>>

(***************************************************************************)
(* The end of a socket, and of the client.                                 *)
(***************************************************************************)
OnClose ==
  /\ StopHeartbeat /\ loginTimer' = None
  /\ loggedIn' = FALSE
  /\ reconnectTimer' = (reconnectTimer \/ ~closing)

\* The close event; a socket that has been replaced is not listened to.
SocketClosed(s) ==
  /\ net[s] # "free"
  /\ net' = [net EXCEPT ![s] = "free"]
  /\ silent' = silent \ {s}
  /\ IF socket = s THEN OnClose ELSE UNCHANGED <<timerVars, loggedIn>>
  /\ UNCHANGED <<socket, serverVars, closing, received>>

\* A bug of Close: recovery is not cancelled.
CloseKeepsRecovery ==
  /\ ~closing /\ closing' = TRUE
  /\ StopHeartbeat /\ loginTimer' = None
  /\ net' = (IF socket = None THEN net ELSE Destroyed(socket)) /\ socket' = None
  /\ UNCHANGED <<reconnectTimer, silent, serverVars, loggedIn, received>>

Close ==
  /\ ~closing
  /\ closing' = TRUE
  /\ StopHeartbeat /\ loginTimer' = None /\ reconnectTimer' = FALSE
  /\ net' = IF socket = None THEN net ELSE Destroyed(socket)
  /\ socket' = None
  /\ UNCHANGED <<silent, serverVars, loggedIn, received>>

\* The process dies: only the server remembers anything.
ClientCrash ==
  /\ socket' = None /\ net' = [s \in Sockets |-> "free"] /\ silent' = {}
  /\ loggedIn' = FALSE /\ closing' = TRUE
  /\ loginTimer' = None /\ StopHeartbeat /\ reconnectTimer' = FALSE
  /\ received' = <<>>
  /\ UNCHANGED serverVars

(***************************************************************************)
(* Network and server.                                                     *)
(***************************************************************************)
FallSilent(s) ==
  /\ Live(s) /\ s \notin silent
  /\ silent' = silent \cup {s}
  /\ UNCHANGED <<socket, net, timerVars, serverVars, loggedIn, closing, received>>

Send(m) ==
  /\ m \notin sent
  /\ sent' = sent \cup {m} /\ held' = held \cup {m}
  /\ UNCHANGED <<netVars, timerVars, loggedIn, closing, received>>

ClientNext ==
  \/ \E s \in Sockets, ids \in Lists, known \in BOOLEAN : Open(ids, s, known)
  \/ \E s \in Sockets : ReconnectTimerFires(s) \/ SocketClosed(s) \/ FallSilent(s)
  \/ \E m \in Messages : DataMessage(m) \/ Send(m)
  \/ SecureConnect \/ LoginAccepted \/ FatalFrame \/ KeepAliveFrame
  \/ LoginTimerFires \/ HeartbeatFires \/ ReplyTimerFires
  \/ Close \/ ClientCrash

ClientSpec == ClientInit /\ [][ClientNext]_clientVars

(***************************************************************************)
(* Properties.                                                             *)
(***************************************************************************)

\* The connection goes on, one way or another: an open client either has a
\* socket that is still open and watched, by the login timer before its login
\* and by the heartbeat after, or one whose close event is due, or the
\* reconnect timer; and no second one of these.  A handler that forgot to
\* arm, keep or clear a timer would leave the gateway deaf or with two
\* connections (connect, onClose, scheduleReconnect, close).
Watched == IF loggedIn THEN heartbeat ELSE loginTimer = socket

OneRecoveryPath ==
  /\ \A s \in Sockets : Live(s) => s = socket /\ ~closing
  /\ closing => ~reconnectTimer /\ ~heartbeat /\ loginTimer = None /\ replyTimer = None
  /\ ~closing =>
       /\ socket # None
       /\ reconnectTimer <=> net[socket] = "free"
       /\ Live(socket) => Watched

\* The gateway does not stay deaf: as long as the client is open, a connection
\* that ended, stalls or was dropped without a word by a router gives way to
\* a new attempt (startHeartbeat: without a reply deadline the receiver would
\* report connected for hours).
Healthy == socket # None /\ Live(socket) /\ socket \notin silent
OutageEnds == []<>(closing \/ Healthy)

=============================================================================
