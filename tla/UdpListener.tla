---------------------------- MODULE UdpListener ----------------------------
(***************************************************************************)
(* A UDP listener and the peers it makes out of sender addresses           *)
(* (src/Net/Async/UdpListener.cpp, UdpPeer.cpp).  Sends are asynchronous   *)
(* on the shared socket and keep their peer alive: they complete after the *)
(* peer was closed, possibly when another peer has taken its address.      *)
(*                                                                         *)
(* A peer is its session id.  A datagram is its size and its number among  *)
(* those of its peer.                                                      *)
(***************************************************************************)
EXTENDS Naturals, Sequences, FiniteSets

CONSTANTS
  IdleTimeout, MaxMessageBytes, MaxSendQueueBytes, MaxQueued, PayloadSizes,
  MaxSends, MaxReads,  \* see ConnectionState
  MaxUdpPayloadBytes,  \* 65507, the most a datagram carries
  Endpoints,           \* sender addresses
  MaxConnections,      \* limits.max_connections
  MaxSessionId         \* the last session id

VARIABLES
  listening,      \* ~closed_ of the listener: it is bound and its timer is set
  receiving,      \* a receive is outstanding
  peerAt,         \* peers_: the session id at each endpoint, 0 for none
  peer,           \* every UdpPeer object made so far, by session id
  registry,       \* context_.connections
  nextSessionId,  \* context_.next_session_id, 0 once exhausted
  sending,        \* outstanding async_send_to operations
  received        \* history: datagrams received

udpVars == <<listening, receiving, peerAt, peer, registry, nextSessionId, sending,
             received>>

Ids == 1..MaxSessionId
Datagram == [number : 1..MaxSends, size : PayloadSizes]

\* age is the time since last_received_, sent the number of sends accepted, stuck
\* a history: a failed send of the peer could not be reported.
Unborn == [endpoint |-> 0, closed |-> TRUE, opened |-> FALSE, queue |-> <<>>,
           bytes |-> 0, age |-> 0, sent |-> 0, stuck |-> FALSE]

TypeOK ==
  /\ listening \in BOOLEAN /\ receiving \in BOOLEAN
  /\ peerAt \in [Endpoints -> 0..MaxSessionId]
  /\ \A p \in Ids :
       /\ peer[p].endpoint \in Endpoints \cup {0}
       /\ peer[p].closed \in BOOLEAN /\ peer[p].opened \in BOOLEAN /\ peer[p].stuck \in BOOLEAN
       /\ peer[p].queue \in Seq(Datagram) /\ Len(peer[p].queue) <= MaxQueued
       /\ peer[p].bytes \in 0..MaxSendQueueBytes
       /\ peer[p].age \in 0..IdleTimeout /\ peer[p].sent \in 0..MaxSends
  /\ registry \subseteq Ids /\ Cardinality(registry) <= MaxConnections
  /\ nextSessionId \in 0..MaxSessionId
  /\ sending \subseteq [peer : Ids, datagram : Datagram]
  /\ received \in 0..MaxReads

UdpInit ==
  /\ listening = TRUE /\ receiving = TRUE
  /\ peerAt = [e \in Endpoints |-> 0]
  /\ peer = [p \in Ids |-> Unborn]
  /\ registry = {}
  /\ nextSessionId = 1
  /\ sending = {}
  /\ received = 0

Live == {p \in Ids : ~peer[p].closed}
-----------------------------------------------------------------------------
\* UdpPeer::close for each peer of S; on a closed peer it does nothing.
\* forget_peer erases whatever is at the endpoint.
Close(S) ==
  LET open == S \cap Live IN
    /\ peer' = [p \in Ids |-> IF p \in open
                              THEN [peer[p] EXCEPT !.closed = TRUE, !.queue = <<>>, !.bytes = 0]
                              ELSE peer[p]]
    /\ peerAt' = [e \in Endpoints |-> IF \E p \in open : peer[p].endpoint = e THEN 0 ELSE peerAt[e]]
    /\ registry' = registry \ open

\* A datagram of a known peer: notify_message takes it, or the peer closes.
\* An exception on the way closes the peer too.
receive(p) ==
  /\ \/ /\ peer' = [peer EXCEPT ![p].age = 0]
        /\ UNCHANGED <<peerAt, registry>>
     \/ Close({p})
  /\ UNCHANGED nextSessionId

\* A new sender: the peer is made, registered and opened, and gets the datagram
\* at once; if OPEN or the message is refused, or something raises, the peer is
\* closed again and leaves nothing behind.
admit(e) ==
  /\ Cardinality(registry) < MaxConnections
  /\ nextSessionId # 0
  /\ nextSessionId' = (nextSessionId + 1) % (MaxSessionId + 1)
  /\ \/ /\ peer' = [peer EXCEPT ![nextSessionId] =
                      [Unborn EXCEPT !.endpoint = e, !.closed = FALSE, !.opened = TRUE]]
        /\ peerAt' = [peerAt EXCEPT ![e] = nextSessionId]
        /\ registry' = registry \cup {nextSessionId}
     \/ /\ peer' = [peer EXCEPT ![nextSessionId].endpoint = e]
        /\ UNCHANGED <<peerAt, registry>>

dispatch_datagram(e) ==
  /\ listening /\ receiving
  /\ received < MaxReads
  /\ received' = received + 1
  /\ IF peerAt[e] # 0 THEN receive(peerAt[e]) ELSE admit(e)
  /\ UNCHANGED <<listening, receiving, sending>>

\* A fatal receive error, a receive or the expiry timer that cannot be started,
\* and stop: every peer goes with the listener.
CloseListener ==
  /\ listening
  /\ listening' = FALSE /\ receiving' = FALSE
  /\ Close(Live)
  /\ UNCHANGED <<nextSessionId, sending, received>>

\* on_receive composes the text of a fatal error before it closes.  If that
\* allocation throws, the listener stays bound and hears nothing any more; its
\* peers stay until they expire.
ReceiveLost ==
  /\ listening /\ receiving
  /\ receiving' = FALSE
  /\ UNCHANGED <<listening, peerAt, peer, registry, nextSessionId, sending, received>>

Disconnect(p) ==
  /\ p \in Live
  /\ Close({p})
  /\ UNCHANGED <<listening, receiving, nextSessionId, sending, received>>
-----------------------------------------------------------------------------
queue_cost(size) == IF size = 0 THEN 1 ELSE size

fits(p, size) ==
  /\ size <= MaxMessageBytes /\ size <= MaxUdpPayloadBytes
  /\ Len(peer[p].queue) < MaxQueued
  /\ queue_cost(size) <= MaxSendQueueBytes
  /\ peer[p].bytes <= MaxSendQueueBytes - queue_cost(size)

\* send(): queue the datagram and start the chain if it is idle.
send(p, size) ==
  /\ p \in Live /\ peer[p].opened
  /\ fits(p, size)
  /\ peer[p].sent < MaxSends
  /\ LET datagram == [number |-> peer[p].sent + 1, size |-> size] IN
       /\ peer' = [peer EXCEPT ![p].queue = Append(@, datagram),
                               ![p].bytes = @ + queue_cost(size),
                               ![p].sent = @ + 1]
       /\ sending' = IF peer[p].queue = <<>>
                     THEN sending \cup {[peer |-> p, datagram |-> datagram]}
                     ELSE sending
  /\ UNCHANGED <<listening, receiving, peerAt, registry, nextSessionId, received>>

\* async_send_to cannot be started: the peer must not keep queued datagrams
\* with no send in flight.
send_throws(p, size) ==
  /\ p \in Live /\ peer[p].opened
  /\ fits(p, size)
  /\ peer[p].queue = <<>>
  /\ Close({p})
  /\ UNCHANGED <<listening, receiving, nextSessionId, sending, received>>

\* Wrong variant of complete_send: a failure of a closed peer's send clears the
\* address although another peer has it by now.
CompleteIgnoresClosed(s) ==
  /\ s \in sending
  /\ UNCHANGED <<listening, receiving, nextSessionId, received>>
  /\ sending' = sending \ {s}
  /\ peerAt' = [peerAt EXCEPT ![peer[s.peer].endpoint] = 0]
  /\ UNCHANGED <<peer, registry>>

complete_send(s) ==
  /\ s \in sending
  /\ UNCHANGED <<listening, receiving, nextSessionId, received>>
  /\ \/ /\ s.peer \notin Live
        /\ sending' = sending \ {s}
        /\ UNCHANGED <<peer, peerAt, registry>>
     \/ /\ s.peer \in Live  \* it failed, or the next send cannot be started
        /\ sending' = sending \ {s}
        /\ Close({s.peer})
     \/ /\ s.peer \in Live  \* it failed, and composing its error text throws
        /\ sending' = sending \ {s}
        /\ peer' = [peer EXCEPT ![s.peer].stuck = TRUE]
        /\ UNCHANGED <<peerAt, registry>>
     \/ /\ s.peer \in Live
        /\ LET rest == Tail(peer[s.peer].queue) IN
             /\ peer' = [peer EXCEPT ![s.peer].queue = rest,
                                     ![s.peer].bytes = @ - queue_cost(s.datagram.size)]
             /\ sending' = (sending \ {s}) \cup
                  {[peer |-> s.peer, datagram |-> rest[i]] : i \in 1..Len(rest) \cap {1}}
        /\ UNCHANGED <<peerAt, registry>>
-----------------------------------------------------------------------------
Tick ==
  /\ \E p \in Live : peer[p].age < IdleTimeout
  /\ peer' = [p \in Ids |-> IF p \in Live /\ peer[p].age < IdleTimeout
                            THEN [peer[p] EXCEPT !.age = @ + 1] ELSE peer[p]]
  /\ UNCHANGED <<listening, receiving, peerAt, registry, nextSessionId, sending, received>>

\* The expiry timer: outbound traffic does not count as a sign of life.
expire_idle_peers ==
  /\ listening
  /\ \E p \in Live : peer[p].age >= IdleTimeout
  /\ Close({p \in Live : peer[p].age >= IdleTimeout})
  /\ UNCHANGED <<listening, receiving, nextSessionId, sending, received>>

Next ==
  \/ \E e \in Endpoints : dispatch_datagram(e)
  \/ CloseListener \/ ReceiveLost
  \/ \E p \in Ids : Disconnect(p)
  \/ \E p \in Ids, size \in PayloadSizes : send(p, size) \/ send_throws(p, size)
  \/ \E s \in sending : complete_send(s)
  \/ Tick \/ expire_idle_peers
-----------------------------------------------------------------------------
\* What the datagrams of a queue cost together.
TotalCost(datagrams) ==
  LET upTo[i \in 0..Len(datagrams)] ==
        IF i = 0 THEN 0 ELSE upTo[i - 1] + queue_cost(datagrams[i].size)
  IN upTo[Len(datagrams)]

BytesAreExact == \A p \in Ids : peer[p].bytes = TotalCost(peer[p].queue)

\* Exactly the first queued datagram of a live peer is being sent.  Only a send
\* failure that could not be reported ends the chain, and no later send starts it
\* again; but no peer outlives the timer that evicts the silent ones.
NeverStalled ==
  /\ \A p \in Live :
       LET first == {peer[p].queue[i] : i \in 1..Len(peer[p].queue) \cap {1}}
           inFlight == {s.datagram : s \in {t \in sending : t.peer = p}}
       IN inFlight = IF peer[p].stuck THEN {} ELSE first
  /\ Live # {} => listening

\* Queued datagrams are the last ones accepted, in order.
SentInOrder ==
  \A p \in Live : \A i \in 1..Len(peer[p].queue) :
    peer[p].queue[i].number = peer[p].sent - Len(peer[p].queue) + i

\* The address table and the registry agree at every moment: each registered
\* peer is reached under its own address and expires there, and no address
\* leads to a closed peer, whatever completes late for its predecessor.
PeersMatchRegistry ==
  /\ registry = {peerAt[e] : e \in Endpoints} \ {0}
  /\ \A e \in Endpoints : peerAt[e] # 0 => peerAt[e] \in Live /\ peer[peerAt[e]].endpoint = e
  /\ Live = registry
=============================================================================
