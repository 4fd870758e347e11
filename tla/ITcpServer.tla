----------------------------- MODULE ITcpServer -----------------------------
(***************************************************************************)
(* What the two line backends share behind the interface ITcpServer: the   *)
(* accept thread, the registry of connections, the framer of each          *)
(* connection, stop(), and the callbacks the runtime hears.  ThreadedServer*)
(* and IocpServer extend this module; TcpServer composes them.             *)
(*                                                                         *)
(* A callback takes time: application code runs between its first and its  *)
(* last step, and may itself disconnect a connection.                      *)
(***************************************************************************)
EXTENDS LineFramer

CONSTANTS
  MaxClients,      \* bound on the clients that connect; ids are 1..MaxClients
  MaxMessageBytes, \* options_.max_message_bytes
  MaxSends,        \* bound on the calls of send; a message is its number
  Settings         \* the options and loads to serve, one of which is chosen

VARIABLES
  setting,     \* the backend, options_.max_connections, the bytes each client
               \* sends, and how often the application sends
  running,     \* running_
  stopper,     \* where the owner's start() or stop() is
  acceptor,    \* where the accept thread is, and the client it handles
  lastId,      \* ids given out so far
  registered,  \* clients_ / connections_
  closing,     \* closed_ / closing_ of each connection
  framer,      \* the framer of each connection
  read,        \* how much of each client's input was received
  callback,    \* the callback each connection is in, "none" for none
  feed,        \* history: what the runtime was told of each connection
  lines,       \* history: the messages delivered for each connection
  sent,        \* calls of send so far
  wire         \* history: the pieces written to each client

ownerVars == <<setting, running, stopper>>
acceptVars == <<acceptor, lastId>>
tableVars == <<registered, closing>>
inputVars == <<framer, read>>
feedVars == <<callback, feed, lines>>
outputVars == <<sent, wire>>
serverVars == <<ownerVars, acceptVars, tableVars, inputVars, feedVars, outputVars>>

Clients == 1..MaxClients
MaxConnections == setting.connections
Input(c) == IF c \in DOMAIN setting.input THEN setting.input[c] ELSE <<>>
Messages == 1..MaxSends

\* A message leaves in pieces; two stand for any number.  End marks a socket
\* on which a write has failed.
PieceOf(m, i) == [message |-> m, piece |-> i]
End == PieceOf(0, 0)
Piece == [message : Messages, piece : {1, 2}] \cup {End}

Acceptor == [at : {"none", "wait", "accepting", "register", "publish", "connected",
                   "notify", "telling", "leave", "receive", "exited"},
             client : 0..MaxClients]
At(where, c) == [at |-> where, client |-> c]

ServerTypeOK ==
  /\ setting \in Settings /\ running \in BOOLEAN
  /\ acceptor \in Acceptor
  /\ lastId \in 0..MaxClients
  /\ registered \subseteq Clients /\ Cardinality(registered) <= MaxConnections
  /\ closing \in [Clients -> BOOLEAN]
  /\ \A c \in Clients : read[c] \in 0..Len(Input(c))
  /\ callback \in [Clients -> {"none", "connected", "message", "disconnected"}]
  /\ feed \in [Clients -> {"new", "connected", "disconnected"}]
  /\ sent \in 0..MaxSends
  /\ wire \in [Clients -> Seq(Piece)]

ServerInit ==
  /\ setting \in Settings
  /\ running = FALSE /\ stopper = "configured"
  /\ acceptor = At("none", 0) /\ lastId = 0
  /\ registered = {} /\ closing = [c \in Clients |-> FALSE]
  /\ framer = [c \in Clients |-> EmptyFramer] /\ read = [c \in Clients |-> 0]
  /\ callback = [c \in Clients |-> "none"]
  /\ feed = [c \in Clients |-> "new"] /\ lines = [c \in Clients |-> <<>>]
  /\ sent = 0 /\ wire = [c \in Clients |-> <<>>]

\* The callbacks, at their first and at their last step.
on_connected(c) ==
  /\ callback' = [callback EXCEPT ![c] = "connected"]
  /\ feed' = [feed EXCEPT ![c] = "connected"]
  /\ UNCHANGED lines

on_message(c) ==
  /\ callback' = [callback EXCEPT ![c] = "message"]
  /\ lines' = [lines EXCEPT ![c] = Append(@, Popped(framer[c]))]
  /\ framer' = [framer EXCEPT ![c] = try_pop(@)]
  /\ UNCHANGED feed

on_disconnected(c) ==
  /\ callback' = [callback EXCEPT ![c] = "disconnected"]
  /\ feed' = [feed EXCEPT ![c] = "disconnected"]
  /\ UNCHANGED lines

Returned(c) ==
  /\ callback' = [callback EXCEPT ![c] = "none"]
  /\ UNCHANGED <<feed, lines>>

\* A read of some of the bytes the client has sent.
Receive(c, k) ==
  /\ k \in 1..(Len(Input(c)) - read[c])
  /\ read' = [read EXCEPT ![c] = @ + k]
  /\ framer' = [framer EXCEPT ![c] =
                  append(@, SubSeq(Input(c), read[c] + 1, read[c] + k), MaxMessageBytes)]

\* Something is written to the socket, or the write fails for good.  That nothing
\* can be written after a failed write is an assumption about sockets: send
\* reports the failure and would try again.
Writable(c) == ~closing[c] /\ End \notin Range(wire[c])
Write(c, piece) == wire' = [wire EXCEPT ![c] = Append(@, piece)]
-----------------------------------------------------------------------------
\* The next client in the listener's backlog becomes a connection.
accept_client ==
  /\ lastId < Len(setting.input)
  /\ lastId' = lastId + 1
  /\ acceptor' = At("accepting", lastId + 1)

\* The accept thread waits with a bound, looks at running_ and takes a client;
\* on_accepting may turn it away, and a socket that cannot be set up is dropped.
Accept ==
  /\ acceptor.at = "wait" /\ running
  /\ accept_client

\* Where the accept thread goes with a socket that could be set up, or not.
configure_client_socket(c) == {At("register", c), At("wait", 0)}

OnAccepting ==
  /\ acceptor.at = "accepting"
  /\ acceptor' \in IF running THEN configure_client_socket(acceptor.client)
                    ELSE {At("exited", 0)}
  /\ UNCHANGED lastId

AcceptExits ==
  /\ acceptor.at \in {"wait", "register"} /\ ~running
  /\ acceptor' = At("exited", 0)
  /\ UNCHANGED lastId

\* The registry is full: the client is dropped with an error report.
AtCapacity == Cardinality(registered) >= MaxConnections

Reject ==
  /\ acceptor.at = "register" /\ running /\ AtCapacity
  /\ acceptor' = At("wait", 0)
  /\ UNCHANGED lastId
-----------------------------------------------------------------------------
\* The runtime hears of a connection in order and one thing at a time:
\* connected first, messages after it returned, disconnected once and last,
\* never two callbacks of one connection at once.
CallbacksInOrder ==
  [][\A c \in Clients :
       callback'[c] # callback[c] /\ callback'[c] # "none" =>
         /\ callback[c] = "none"
         /\ feed[c] = IF callback'[c] = "connected" THEN "new" ELSE "connected"]_serverVars

\* Messages are the lines the client sent, in order and within the limit,
\* however the stream was cut into reads.
LinesAreWhole ==
  \A c \in Clients : AreLinesOf(lines[c], Input(c), MaxMessageBytes)

\* "A complete application write stays together even when several threads send
\* to the same client": on the wire the pieces of a message are adjacent, and
\* only the last message may be cut short.
WritesStayWhole ==
  \A c \in Clients : \A i \in DOMAIN wire[c] :
    wire[c][i] # End =>
      IF i % 2 = 1 THEN wire[c][i].piece = 1
      ELSE wire[c][i] = PieceOf(wire[c][i - 1].message, 2)
=============================================================================
