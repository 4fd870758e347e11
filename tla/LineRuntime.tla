----------------------------- MODULE LineRuntime -----------------------------
(***************************************************************************)
(* The runtime above the line servers (src/Runtime/Server.cpp,             *)
(* TcpListener.cpp, SessionRegistry.cpp, ConnectionHub.cpp, Session.cpp)   *)
(* with the handler of the echo application                                *)
(* (examples/EchoServer/EchoHandler.cpp).                                  *)
(*                                                                         *)
(* Each listener has a transport of its own that numbers its connections   *)
(* from one.  Transports keep what TcpServer shows: callbacks of one       *)
(* connection come in order and one at a time, and stop() returns when     *)
(* none is running.  The last notification of a connection may be missing, *)
(* which TcpListener::stop is prepared for.                                *)
(***************************************************************************)
EXTENDS Naturals, FiniteSets

CONSTANTS
  Listeners,      \* the enabled listeners
  Conns,          \* the connections: a listener, and an id its transport gives out
  MaxSessions,    \* options_.max_sessions
  MaxSessionId,   \* bound on next_session_id_
  MaxMessages,    \* bound on the messages of all connections
  MaxStarts,      \* bound on the calls of start()
  RequireAuth     \* access_.require_auth

ASSUME RuntimeAssumption ==
  /\ Conns \subseteq Listeners \X (1..MaxSessionId)
  /\ MaxSessions \in Nat /\ MaxSessionId \in Nat \ {0}
  /\ MaxMessages \in Nat /\ MaxStarts \in Nat
  /\ RequireAuth \in BOOLEAN

VARIABLES
  running,      \* running_
  owner,        \* where the owner's start() or stop() is
  todo,         \* the listeners start() or stop() has not reached
  starts,       \* calls of start() so far
  transport,    \* the transport of each listener
  conn,         \* each connection, and the callback it is in
  sessions,     \* sessions_ of the listeners: the session of a connection, or 0
  hub,          \* the hub's entry of each session id
  nextSession,  \* next_session_id_
  messages,     \* messages received so far
  told,         \* history: the handler calls of each session
  proved,       \* history: connections that presented the token
  echoed        \* history: connections that were answered as users

ownerVars == <<running, owner, todo, starts, transport>>
historyVars == <<told, proved, echoed>>
vars == <<ownerVars, conn, sessions, hub, nextSession, messages, historyVars>>

SessionIds == 1..MaxSessionId

\* A request carries the right token, a wrong one, or is for the application; a
\* reply is about authentication, or the application's answer.
Requests == {"auth", "wrong auth", "text"}
Replies == {"notice", "answer"}

\* A connection: where its callback is, the session the callback works for,
\* and the request or reply at hand.
NoConn == [at |-> "new", session |-> 0, data |-> "none"]

InCallback == {"connected", "admit", "map", "dispatch start", "dispatch", "handler", "reply",
               "dispatch stop", "remove"}
Where == InCallback \cup {"new", "accepted", "open", "gone"}

\* The hub counts messages and bytes too; nothing depends on these numbers.
NoEntry == [present |-> FALSE, authenticated |-> FALSE]

TypeOK ==
  /\ running \in BOOLEAN /\ owner \in {"stopped", "starting", "idle", "stopping"}
  /\ todo \subseteq Listeners /\ starts \in 0..MaxStarts
  /\ transport \in [Listeners -> {"down", "up", "stopping"}]
  /\ conn \in [Conns -> [at : Where, session : 0..MaxSessionId,
                         data : Requests \cup Replies \cup {"none"}]]
  /\ sessions \in [Conns -> 0..MaxSessionId]
  /\ hub \in [SessionIds -> [present : BOOLEAN, authenticated : BOOLEAN]]
  /\ messages \in 0..MaxMessages
  /\ nextSession \in 1..(MaxSessionId + 1)
  /\ told \in [SessionIds -> {"none", "started", "stopped"}]
  /\ proved \subseteq Conns /\ echoed \subseteq Conns

Init ==
  /\ running = FALSE /\ owner = "stopped" /\ todo = {} /\ starts = 0
  /\ transport = [l \in Listeners |-> "down"]
  /\ conn = [c \in Conns |-> NoConn]
  /\ sessions = [c \in Conns |-> 0]
  /\ hub = [s \in SessionIds |-> NoEntry]
  /\ nextSession = 1 /\ messages = 0
  /\ told = [s \in SessionIds |-> "none"] /\ proved = {} /\ echoed = {}

Of(l) == {c \in Conns : c[1] = l}
Goes(c, where) == conn' = [conn EXCEPT ![c].at = where]
Returns(c, where) == conn' = [conn EXCEPT ![c] = [NoConn EXCEPT !.at = where]]
Entries == {s \in SessionIds : hub[s].present}

\* sessions_ of a connection's listener, under its lock: 0 for no session.
find_session(c) == sessions[c]
-----------------------------------------------------------------------------
(***************************************************************************)
(* Server::start and Server::stop, by the owner thread.                    *)
(***************************************************************************)
start ==
  /\ owner = "stopped" /\ starts < MaxStarts
  /\ running' = TRUE /\ owner' = "starting" /\ todo' = Listeners
  /\ starts' = starts + 1
  /\ UNCHANGED <<transport, conn, sessions, hub, nextSession, messages, historyVars>>

\* The next listener starts, with a new transport whose ids begin anew.
StartListener(l) ==
  /\ owner = "starting" /\ l \in todo
  /\ todo' = todo \ {l}
  /\ owner' = IF todo = {l} THEN "idle" ELSE "starting"
  /\ transport' = [transport EXCEPT ![l] = "up"]
  /\ conn' = [c \in Conns |-> IF c \in Of(l) THEN NoConn ELSE conn[c]]
  /\ proved' = proved \ Of(l) /\ echoed' = echoed \ Of(l)
  /\ UNCHANGED <<running, starts, sessions, hub, nextSession, messages, told>>

\* stop(), called by the owner or because a listener did not start.
stop ==
  /\ owner \in {"idle", "starting"}
  /\ running' = FALSE /\ owner' = "stopping"
  /\ todo' = {l \in Listeners : transport[l] = "up"}
  /\ UNCHANGED <<starts, transport, conn, sessions, hub, nextSession, messages, historyVars>>

StopTransport(l) ==
  /\ owner = "stopping" /\ l \in todo /\ \A m \in Listeners : transport[m] # "stopping"
  /\ transport' = [transport EXCEPT ![l] = "stopping"]
  /\ UNCHANGED <<running, owner, todo, starts, conn, sessions, hub, nextSession, messages, historyVars>>

\* Wrong variant of StopListener: sessions without a last notification stay.
StopWithoutCleanup(l) ==
  /\ transport[l] = "stopping"
  /\ \A c \in Of(l) : conn[c].at \in {"new", "open", "gone"}
  /\ transport' = [transport EXCEPT ![l] = "down"]
  /\ todo' = todo \ {l}
  /\ sessions' = [c \in Conns |-> IF c \in Of(l) THEN 0 ELSE sessions[c]]
  /\ UNCHANGED <<running, owner, starts, conn, hub, nextSession, messages, historyVars>>

\* The transport has stopped: no callback runs, and the sessions that had no
\* last notification are released.
StopListener(l) ==
  /\ transport[l] = "stopping"
  /\ \A c \in Of(l) : conn[c].at \in {"new", "open", "gone"}
  /\ transport' = [transport EXCEPT ![l] = "down"]
  /\ todo' = todo \ {l}
  /\ hub' = [s \in SessionIds |-> IF \E c \in Of(l) : sessions[c] = s THEN NoEntry ELSE hub[s]]
  /\ sessions' = [c \in Conns |-> IF c \in Of(l) THEN 0 ELSE sessions[c]]
  /\ UNCHANGED <<running, owner, starts, conn, nextSession, messages, historyVars>>

StopReturns ==
  /\ owner = "stopping" /\ todo = {}
  /\ owner' = "stopped"
  /\ UNCHANGED <<running, todo, starts, transport, conn, sessions, hub, nextSession, messages, historyVars>>
-----------------------------------------------------------------------------
(***************************************************************************)
(* TcpListener::on_connected and on_disconnected.                          *)
(***************************************************************************)

\* on_accepting lets a client in while the server runs; on_connected follows.
on_accepting(c) ==
  /\ transport[c[1]] = "up" /\ conn[c].at = "new" /\ running
  /\ Goes(c, "accepted")
  /\ UNCHANGED <<ownerVars, sessions, hub, nextSession, messages, historyVars>>

SetupFails(c) ==
  /\ conn[c].at = "accepted"
  /\ Goes(c, "gone")
  /\ UNCHANGED <<ownerVars, sessions, hub, nextSession, messages, historyVars>>

\* A server that is stopping has the transport disconnect the client.
on_connected(c) ==
  /\ conn[c].at = "accepted"
  /\ Goes(c, IF running THEN "admit" ELSE "open")
  /\ UNCHANGED <<ownerVars, sessions, hub, nextSession, messages, historyVars>>

\* Wrong variant of try_add: a session has its connection's number.
AddByConnectionId(c) ==
  /\ conn[c].at = "admit"
  /\ IF Cardinality(Entries) >= MaxSessions
     THEN Goes(c, "open") /\ UNCHANGED <<hub, nextSession>>
     ELSE /\ hub' = [hub EXCEPT ![c[2]].present = TRUE]
          /\ conn' = [conn EXCEPT ![c].at = "map", ![c].session = c[2]]
          /\ UNCHANGED nextSession
  /\ UNCHANGED <<ownerVars, sessions, messages, historyVars>>

\* SessionRegistry::try_add: the limit and the insertion are one step for all
\* listeners; without a slot the client is disconnected.
try_add(c) ==
  /\ conn[c].at = "admit" /\ nextSession <= MaxSessionId
  /\ IF Cardinality(Entries) >= MaxSessions
     THEN Goes(c, "open") /\ UNCHANGED <<hub, nextSession>>
     ELSE /\ hub' = [hub EXCEPT ![nextSession] = [NoEntry EXCEPT !.present = TRUE]]
          /\ conn' = [conn EXCEPT ![c].at = "map", ![c].session = nextSession]
          /\ nextSession' = nextSession + 1
  /\ UNCHANGED <<ownerVars, sessions, messages, historyVars>>

MapSession(c) ==
  /\ conn[c].at = "map"
  /\ sessions' = [sessions EXCEPT ![c] = conn[c].session]
  /\ Goes(c, "dispatch start")
  /\ UNCHANGED <<ownerVars, hub, nextSession, messages, historyVars>>

\* The handler greets a client that has to authenticate.
dispatch_session_started(c) ==
  /\ conn[c].at = "dispatch start"
  /\ IF running
     THEN /\ told' = [told EXCEPT ![conn[c].session] = "started"]
          /\ IF RequireAuth THEN conn' = [conn EXCEPT ![c].at = "reply", ![c].data = "notice"]
                            ELSE Returns(c, "open")
     ELSE Returns(c, "open") /\ UNCHANGED told
  /\ UNCHANGED <<ownerVars, sessions, hub, nextSession, messages, proved, echoed>>

\* The mapping goes first, then the handler hears of it, then the slot is free.
on_disconnected(c) ==
  /\ conn[c].at = "open"
  /\ conn' = [conn EXCEPT ![c].session = sessions[c],
                          ![c].at = IF sessions[c] = 0 THEN "gone" ELSE "dispatch stop"]
  /\ sessions' = [sessions EXCEPT ![c] = 0]
  /\ UNCHANGED <<ownerVars, hub, nextSession, messages, historyVars>>

dispatch_session_stopped(c) ==
  /\ conn[c].at = "dispatch stop"
  /\ told' = IF running THEN [told EXCEPT ![conn[c].session] = "stopped"] ELSE told
  /\ Goes(c, "remove")
  /\ UNCHANGED <<ownerVars, sessions, hub, nextSession, messages, proved, echoed>>

remove_session(c) ==
  /\ conn[c].at = "remove"
  /\ hub' = [hub EXCEPT ![conn[c].session] = NoEntry]
  /\ Returns(c, "gone")
  /\ UNCHANGED <<ownerVars, sessions, nextSession, messages, historyVars>>
-----------------------------------------------------------------------------
(***************************************************************************)
(* TcpListener::on_message and EchoHandler::on_message.                    *)
(***************************************************************************)
on_message(c, request) ==
  /\ conn[c].at = "open" /\ messages < MaxMessages
  /\ messages' = messages + 1
  /\ IF find_session(c) = 0 THEN UNCHANGED conn
     ELSE conn' = [conn EXCEPT ![c] = [at |-> "dispatch", session |-> find_session(c), data |-> request]]
  /\ proved' = IF request = "auth" THEN proved \cup {c} ELSE proved
  /\ UNCHANGED <<ownerVars, sessions, hub, nextSession, told, echoed>>

\* Wrong variant of dispatch_message: running_ is not looked at.
DispatchAlways(c) ==
  /\ conn[c].at = "dispatch"
  /\ Goes(c, "handler")
  /\ UNCHANGED <<ownerVars, sessions, hub, nextSession, messages, historyVars>>

\* dispatch_message: the handler gets it, unless the server was stopped.
dispatch_message(c) ==
  /\ conn[c].at = "dispatch"
  /\ IF running THEN Goes(c, "handler") ELSE Returns(c, "open")
  /\ UNCHANGED <<ownerVars, sessions, hub, nextSession, messages, historyVars>>

Replying(c, reply) == conn' = [conn EXCEPT ![c].at = "reply", ![c].data = reply]

\* The hub's entry becomes a user, if it is still there.
authenticate(s) ==
  hub' = IF hub[s].present THEN [hub EXCEPT ![s].authenticated = TRUE] ELSE hub

is_authenticated(s) == hub[s].present /\ hub[s].authenticated

\* handle_auth_command: a correct token makes the hub's entry a user.
handle_auth_command(c) ==
  LET s == conn[c].session IN
  /\ conn[c].at = "handler" /\ conn[c].data \in {"auth", "wrong auth"}
  /\ IF conn[c].data = "auth" THEN authenticate(s) ELSE UNCHANGED hub
  /\ Replying(c, "notice")
  /\ UNCHANGED <<ownerVars, sessions, nextSession, messages, historyVars>>

\* Users are answered; others are refused when authentication is required.
AnswerRequest(c) ==
  LET s == conn[c].session IN
  /\ conn[c].at = "handler" /\ conn[c].data = "text"
  /\ Replying(c, IF RequireAuth /\ ~is_authenticated(s) THEN "notice" ELSE "answer")
  /\ UNCHANGED <<ownerVars, sessions, hub, nextSession, messages, historyVars>>

\* Session::send: the transport takes the reply or not, and the callback returns.
SessionSend(c) ==
  /\ conn[c].at = "reply"
  /\ Returns(c, "open")
  /\ echoed' = IF conn[c].data = "answer" THEN echoed \cup {c} ELSE echoed
  /\ UNCHANGED <<ownerVars, sessions, hub, nextSession, messages, told, proved>>
-----------------------------------------------------------------------------
Next ==
  \/ start \/ stop \/ StopReturns
  \/ \E l \in Listeners : StartListener(l) \/ StopTransport(l) \/ StopListener(l)
  \/ \E c \in Conns :
       \/ on_accepting(c) \/ SetupFails(c) \/ on_connected(c) \/ try_add(c) \/ MapSession(c)
       \/ dispatch_session_started(c)
       \/ on_disconnected(c) \/ dispatch_session_stopped(c) \/ remove_session(c)
       \/ \E request \in Requests : on_message(c, request)
       \/ dispatch_message(c) \/ handle_auth_command(c) \/ AnswerRequest(c) \/ SessionSend(c)

Spec == Init /\ [][Next]_vars
-----------------------------------------------------------------------------
\* The connection that answers for a session: mapped to it, or in the callback
\* that is about to map or has just unmapped it.
Owners(s) ==
  {c \in Conns : sessions[c] = s
                   \/ (conn[c].session = s /\ conn[c].at \in {"map", "dispatch stop", "remove"})}

\* "The limit check and insertion must be one operation across all listeners":
\* never more sessions than allowed, each with exactly one connection that will
\* release it, and none once stop() has returned, also when start() failed or
\* last notifications were lost.  (The state is well typed, too.)
SessionsExact ==
  /\ TypeOK
  /\ Cardinality(Entries) <= MaxSessions
  /\ \A s \in SessionIds : Cardinality(Owners(s)) = IF s \in Entries THEN 1 ELSE 0
  /\ owner = "stopped" => Entries = {}

\* The handler hears of a session in order: started, then its messages, then
\* stopped at most once and last; a start that was ignored because the server
\* was stopping is followed by nothing.
HandlerInOrder ==
  [][/\ \A s \in SessionIds :
          told'[s] # told[s] => <<told[s], told'[s]>> \in {<<"none", "started">>, <<"started", "stopped">>}
     /\ \A c \in Conns :
          conn'[c].at = "handler" /\ conn[c].at # "handler" => told[conn[c].session] = "started"]_vars

\* With require_auth, only a connection that has itself presented the token is
\* answered as a user, although connection ids repeat across listeners and
\* restarts.
OnlyUsersAreAnswered == RequireAuth => echoed \subseteq proved
=============================================================================
