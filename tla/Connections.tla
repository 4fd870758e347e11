----------------------------- MODULE Connections -----------------------------
(***************************************************************************)
(* What a listener of the asynchronous transport serves, by the protocol   *)
(* it is configured with: TcpListener::admit makes a TcpConnection, a      *)
(* WebSocketConnection or an HttpConnection, make_udp_listener a listener  *)
(* with peers.  One choice is made in the initial state; the state of the  *)
(* others stays initial.  The promises are the same for all of them.       *)
(***************************************************************************)
EXTENDS ConnectionState

CONSTANTS
  MaxRequestId, HeaderLimit,               \* see HttpConnection
  Endpoints, MaxConnections, MaxSessionId, MaxUdpPayloadBytes  \* see UdpListener

ASSUME ProtocolAssumption ==
  /\ MaxRequestId \in Nat \ {0} /\ HeaderLimit \in Nat
  /\ Endpoints \subseteq Nat \ {0}
  /\ MaxConnections \in Nat /\ MaxSessionId \in Nat \ {0}
  /\ MaxUdpPayloadBytes \in Nat

VARIABLES
  kind, op,
  outgoing, queuedBytes, write, wire, sends, reads,  \* StreamConnection
  pending, requestFlags, nextRequestId, response, taken, number, answers,
  listening, receiving, peerAt, peer, registry, nextSessionId, sending, received

Stream == INSTANCE StreamConnection
Http == INSTANCE HttpConnection
Udp == INSTANCE UdpListener

streamVars == <<outgoing, queuedBytes, write, wire, sends, reads>>
httpVars == <<pending, requestFlags, nextRequestId, response, taken, number, answers>>
udpVars == <<listening, receiving, peerAt, peer, registry, nextSessionId, sending,
             received>>
vars == <<stateVars, kind, op, streamVars, httpVars, udpVars>>

\* A listener's protocol and channel security; UDP has no secure channel.
Kinds == [protocol : {"tcp", "websocket", "http"}, tls : BOOLEAN]
         \cup {[protocol |-> "udp", tls |-> FALSE]}

IsStream == kind.protocol \in {"tcp", "websocket"}
IsHttp == kind.protocol = "http"
IsUdp == kind.protocol = "udp"

Init ==
  /\ kind \in Kinds
  /\ StateInit
  /\ op = "start"
  /\ Stream!StreamInit
  /\ Http!HttpInit
  /\ Udp!UdpInit

StreamStep == IsStream /\ Stream!Next /\ UNCHANGED <<httpVars, udpVars>>
HttpStep == IsHttp /\ Http!Next /\ UNCHANGED <<streamVars, udpVars>>
UdpStep == IsUdp /\ Udp!Next /\ UNCHANGED <<stateVars, kind, op, streamVars, httpVars>>

Next == StreamStep \/ HttpStep \/ UdpStep

Spec == Init /\ [][Next]_vars

Clock ==
  \/ IsStream /\ Stream!Tick /\ UNCHANGED <<httpVars, udpVars>>
  \/ IsHttp /\ Http!Tick /\ UNCHANGED <<streamVars, udpVars>>
  \/ IsUdp /\ Udp!Tick /\ UNCHANGED <<stateVars, kind, op, streamVars, httpVars>>

Worker ==
  \/ IsStream /\ Stream!Worker /\ UNCHANGED <<httpVars, udpVars>>
  \/ IsHttp /\ Http!Worker /\ UNCHANGED <<streamVars, udpVars>>
  \/ /\ IsUdp /\ Udp!expire_idle_peers
     /\ UNCHANGED <<stateVars, kind, op, streamVars, httpVars>>

\* The worker starts what was admitted and runs queued timer handlers, and the
\* clock advances.  Nothing makes a peer send, read or acknowledge, or the
\* application answer.
FairSpec == Spec /\ WF_vars(Clock) /\ WF_vars(Worker)
-----------------------------------------------------------------------------
TypeOK ==
  /\ kind \in Kinds
  /\ IsStream => Stream!TypeOK
  /\ IsHttp => Http!TypeOK
  /\ IsUdp => Udp!TypeOK

\* The byte counters of the send queues are what the queued frames cost, also
\* across completions that arrive after close: the unsigned subtractions never
\* wrap and the limits hold.
BytesAreExact == TypeOK /\ Stream!BytesAreExact /\ Udp!BytesAreExact

\* A live session always waits for something that will happen or time out: "an
\* allocation/Asio initiation exception must never leave a live session with no
\* read in flight" (ConnectionState.h), nor queued frames with no write.  A UDP
\* peer may keep datagrams that nobody sends, in the one case UdpListener names,
\* and is then left to its listener's timer.
NeverStalled ==
  /\ IsStream => Stream!NeverStalled
  /\ IsHttp => Http!NeverStalled
  /\ Udp!NeverStalled

\* What leaves is in the order of acceptance and complete; an HTTP response
\* answers the request it follows, whatever ids the application answers.
InOrder ==
  /\ Stream!WireInOrder
  /\ Http!AnswersInOrder
  /\ Udp!SentInOrder

\* The UDP address table and the registry agree, see UdpListener.
PeersMatchRegistry == Udp!PeersMatchRegistry

\* A deadline closes a connection only after it made no progress for the whole
\* time its phase allows, however late expiry handlers run: a timeout queued
\* before activity refreshed the timer closes nothing.
DeadlineIsReal ==
  [][~closed /\ why' = "deadline" =>
       quiet >= IF IsHttp THEN Http!Allowed ELSE Stream!Allowed]_vars

\* Whoever goes silent is closed: an unfinished handshake, an idle session, a
\* request that trickles, an application that does not answer, a mute UDP peer.
Open == IF IsUdp THEN Udp!Live # {} /\ listening ELSE ~closed
SilenceEnds == Open ~> ~Open
=============================================================================
