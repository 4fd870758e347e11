-------------------------- MODULE DatagramTransport --------------------------
(***************************************************************************)
(* The datagram endpoints over GameNetworkingSockets                       *)
(* (src/Net/Transports/Gns/Runtime.cpp, Endpoint.cpp, EndpointEvents.cpp): *)
(* one process-wide runtime whose mutex every call takes, and GNS threads  *)
(* that accept, connect, lose and receive without it.  A poll holds the    *)
(* mutex while it pumps and gives it up while it waits.                    *)
(*                                                                         *)
(* Native connection handles are not reused and stand for peer ids too.    *)
(***************************************************************************)
EXTENDS Naturals, Sequences, FiniteSets

CONSTANTS
  Ids,            \* endpoint handles, never reused
  Natives,        \* native connection handles
  Pollers,        \* threads that poll
  MaxEndpoints,   \* 64 in create()
  MaxPeers,       \* options_.max_peers
  MaxEvents,      \* options_.max_event_queue_count
  MaxEventBytes,  \* options_.max_event_queue_bytes
  EventBytes,     \* sizeof(se_datagram_event)
  MaxSize,        \* options_.max_message_bytes
  Sizes,          \* payload sizes a peer sends, too large ones included
  MaxMessages     \* bound on the messages peers send

\* Options are refused unless the queue can hold one message of the largest size.
valid_options ==
  /\ MaxPeers >= 1 /\ MaxEvents >= 1
  /\ MaxEventBytes >= EventBytes + MaxSize

ASSUME DatagramAssumption ==
  /\ MaxPeers \in Nat /\ MaxEvents \in Nat /\ MaxEndpoints \in Nat
  /\ EventBytes \in Nat /\ MaxSize \in Nat /\ MaxEventBytes \in Nat
  /\ valid_options
  /\ Sizes \subseteq Nat /\ MaxMessages \in Nat
  /\ 0 \notin Ids

VARIABLES
  initialized,  \* the GNS library is initialized
  endpoint,     \* every Endpoint object, with the messages in its poll group
  native,       \* every native connection, with the peers_ entry for it
  callbacks,    \* status changes GNS has queued for RunCallbacks
  poller,       \* where each poll call is
  messages,     \* messages sent by peers so far
  seen          \* history: the kinds of events polled for each peer

vars == <<initialized, endpoint, native, callbacks, poller, messages, seen>>

NoEndpoint == [made |-> FALSE, listed |-> FALSE, listening |-> FALSE, stopped |-> FALSE,
               overflow |-> FALSE, reported |-> FALSE, events |-> <<>>, bytes |-> 0,
               inbox |-> <<>>]
NoNative == [state |-> "unused", of |-> 0, inbound |-> FALSE, owner |-> 0, connected |-> FALSE]
NotPolling == [at |-> "idle", of |-> 0, rest |-> {}]

Event(kind, n, size) == [kind |-> kind, peer |-> n, size |-> size]
Cost(event) == EventBytes + event.size
Open == {"connecting", "connected", "lost"}
Holding == {"take", "callbacks", "receive", "retake"}

TypeOK ==
  /\ initialized \in BOOLEAN
  /\ \A e \in Ids :
       /\ endpoint[e].stopped \in BOOLEAN /\ endpoint[e].overflow \in BOOLEAN
       /\ endpoint[e].reported => endpoint[e].overflow
       /\ endpoint[e].events \in Seq([kind : {"connected", "message", "disconnected"},
                                      peer : Natives, size : Nat])
  /\ \A n \in Natives :
       /\ native[n].state \in Open \cup {"unused", "closed"}
       /\ native[n].owner \in Ids \cup {0}
  /\ \A t \in Pollers : poller[t].at \in Holding \cup {"idle", "wait"}
  /\ Cardinality({t \in Pollers : poller[t].at \in Holding}) <= 1
  /\ messages \in 0..MaxMessages

Init ==
  /\ initialized = FALSE
  /\ endpoint = [e \in Ids |-> NoEndpoint]
  /\ native = [n \in Natives |-> NoNative]
  /\ callbacks = <<>>
  /\ poller = [t \in Pollers |-> NotPolling]
  /\ messages = 0
  /\ seen = [n \in Natives |-> <<>>]

Endpoints == {e \in Ids : endpoint[e].listed}
Peers(e) == {n \in Natives : native[n].owner = e}
MutexFree == \A t \in Pollers : poller[t].at \notin Holding
-----------------------------------------------------------------------------
(***************************************************************************)
(* The parts of the event queue.                                           *)
(***************************************************************************)
shutdown(ep) ==
  [ep EXCEPT !.stopped = TRUE, !.listening = FALSE, !.events = <<>>, !.bytes = 0, !.inbox = <<>>]

overflow(ep) == [shutdown(ep) EXCEPT !.overflow = TRUE]

\* push(): the event is queued, or the endpoint overflows, also when memory for
\* the event is missing.
push(ep, event) ==
  IF ep.stopped THEN {ep}
  ELSE IF Len(ep.events) >= MaxEvents \/ Cost(event) > MaxEventBytes - ep.bytes THEN {overflow(ep)}
  ELSE {[ep EXCEPT !.events = Append(@, event), !.bytes = @ + Cost(event)], overflow(ep)}

Closed(n) == [native[n] EXCEPT !.state = "closed", !.owner = 0, !.connected = FALSE]

\* Endpoint e becomes ep; the natives of gone are closed, and all its peers
\* when it was shut down.
Becomes(e, ep, gone) ==
  /\ endpoint' = [endpoint EXCEPT ![e] = ep]
  /\ native' = [n \in Natives |-> IF n \in gone \/ (ep.stopped /\ native[n].owner = e)
                                  THEN Closed(n) ELSE native[n]]

\* drop(): the peer goes and its end is queued.
drop(e, ep, n) == \E left \in push(ep, Event("disconnected", n, 0)) : Becomes(e, left, {n})
-----------------------------------------------------------------------------
(***************************************************************************)
(* Calls, each under the mutex.                                            *)
(***************************************************************************)
create(e) ==
  /\ MutexFree /\ ~endpoint[e].made /\ Cardinality(Endpoints) < MaxEndpoints
  /\ initialized' = TRUE
  /\ endpoint' = [endpoint EXCEPT ![e] = [NoEndpoint EXCEPT !.made = TRUE, !.listed = TRUE]]
  /\ UNCHANGED <<native, callbacks, poller, messages, seen>>

listen(e) ==
  /\ MutexFree /\ e \in Endpoints /\ ~endpoint[e].stopped /\ ~endpoint[e].listening
  /\ endpoint' = [endpoint EXCEPT ![e].listening = TRUE]
  /\ UNCHANGED <<initialized, native, callbacks, poller, messages, seen>>

connect(e, n) ==
  /\ MutexFree /\ e \in Endpoints /\ ~endpoint[e].stopped
  /\ Cardinality(Peers(e)) < MaxPeers /\ native[n] = NoNative
  /\ native' = [native EXCEPT ![n] = [NoNative EXCEPT !.state = "connecting", !.of = e, !.owner = e]]
  /\ callbacks' = Append(callbacks, [native |-> n, state |-> "connecting"])
  /\ UNCHANGED <<initialized, endpoint, poller, messages, seen>>

disconnect(e, n) ==
  /\ MutexFree /\ e \in Endpoints /\ ~endpoint[e].stopped /\ n \in Peers(e)
  /\ drop(e, endpoint[e], n)
  /\ UNCHANGED <<initialized, callbacks, poller, messages, seen>>

\* GNS ends with the last endpoint, e; with it go all of its connections,
\* status changes and messages.
release_if_empty(e) ==
  IF Endpoints = {e}
  THEN /\ initialized' = FALSE
       /\ callbacks' = <<>>
       /\ native' = [n \in Natives |-> IF native[n].state \in Open THEN Closed(n) ELSE native[n]]
  ELSE /\ native' = [n \in Natives |-> IF native[n].owner = e THEN Closed(n) ELSE native[n]]
       /\ UNCHANGED <<initialized, callbacks>>

\* destroy(): shut down, unlist, and end GNS with the last endpoint.
destroy(e) ==
  /\ MutexFree /\ e \in Endpoints
  /\ endpoint' = [endpoint EXCEPT ![e] = [shutdown(@) EXCEPT !.listed = FALSE]]
  /\ release_if_empty(e)
  /\ UNCHANGED <<poller, messages, seen>>
-----------------------------------------------------------------------------
(***************************************************************************)
(* GNS threads, at any time while GNS is initialized.                      *)
(***************************************************************************)
Changes(n, state) ==
  /\ native' = [native EXCEPT ![n].state = state]
  /\ callbacks' = Append(callbacks, [native |-> n, state |-> state])
  /\ UNCHANGED <<initialized, endpoint, poller, messages, seen>>

GnsInbound(e, n) ==
  /\ endpoint[e].listening /\ native[n] = NoNative
  /\ native' = [native EXCEPT ![n] = [NoNative EXCEPT !.state = "connecting", !.of = e, !.inbound = TRUE]]
  /\ callbacks' = Append(callbacks, [native |-> n, state |-> "connecting"])
  /\ UNCHANGED <<initialized, endpoint, poller, messages, seen>>

GnsConnected(n) == native[n].state = "connecting" /\ native[n].owner # 0 /\ Changes(n, "connected")

GnsLost(n) == native[n].state \in {"connecting", "connected"} /\ Changes(n, "lost")

GnsMessage(n, size) ==
  /\ native[n].state = "connected" /\ messages < MaxMessages
  /\ messages' = messages + 1
  /\ endpoint' = [endpoint EXCEPT ![native[n].of].inbox = Append(@, [native |-> n, size |-> size])]
  /\ UNCHANGED <<initialized, native, callbacks, poller, seen>>
-----------------------------------------------------------------------------
(***************************************************************************)
(* poll(): take, pump, take again, wait.                                   *)
(***************************************************************************)
At(t, where) == poller' = [poller EXCEPT ![t].at = where]

poll(t, e) ==
  /\ MutexFree /\ poller[t] = NotPolling /\ e \in Endpoints
  /\ poller' = [poller EXCEPT ![t] = [NotPolling EXCEPT !.at = "take", !.of = e]]
  /\ UNCHANGED <<initialized, endpoint, native, callbacks, messages, seen>>

\* take() returns something: an overflow once, then the end, or the first event
\* if the buffer holds it.
take(t) ==
  LET e == poller[t].of
      ep == endpoint[e]
  IN
  /\ poller[t].at \in {"take", "retake"}
  /\ poller' = [poller EXCEPT ![t] = NotPolling]
  /\ \/ /\ ep.overflow /\ ~ep.reported
        /\ endpoint' = [endpoint EXCEPT ![e].reported = TRUE]
        /\ seen' = [n \in Natives |-> IF native[n].of = e THEN Append(seen[n], "overflow") ELSE seen[n]]
     \/ /\ ep.stopped /\ (ep.overflow => ep.reported)
        /\ UNCHANGED <<endpoint, seen>>
     \/ /\ ep.events # <<>>
        /\ \/ /\ endpoint' = [endpoint EXCEPT ![e].events = Tail(@),
                                              ![e].bytes = @ - Cost(Head(ep.events))]
              /\ seen' = [seen EXCEPT ![Head(ep.events).peer] = Append(@, Head(ep.events).kind)]
           \/ Head(ep.events).size > 0 /\ UNCHANGED <<endpoint, seen>>
  /\ UNCHANGED <<initialized, native, callbacks, messages>>

\* Nothing to take: pump if GNS is there; the second time return or wait.
TakesNothing(t) ==
  /\ poller[t].at \in {"take", "retake"}
  /\ ~endpoint[poller[t].of].stopped /\ endpoint[poller[t].of].events = <<>>
  /\ \/ poller[t].at = "take" /\ At(t, IF initialized THEN "callbacks" ELSE "retake")
     \/ poller[t].at = "retake" /\ At(t, "wait")
     \/ poller[t].at = "retake" /\ poller' = [poller EXCEPT ![t] = NotPolling]
  /\ UNCHANGED <<initialized, endpoint, native, callbacks, messages, seen>>

\* A notification or five milliseconds: the mutex is taken again.
Wakes(t) ==
  /\ poller[t].at = "wait" /\ MutexFree
  /\ At(t, "take")
  /\ UNCHANGED <<initialized, endpoint, native, callbacks, messages, seen>>

owns(e, n) ==
  ~endpoint[e].stopped /\ (n \in Peers(e) \/ (endpoint[e].listening /\ native[n].inbound /\ native[n].of = e))

\* on_status of the endpoint that owns the connection.
on_status(e, n, state) ==
  \/ /\ state = "connecting" /\ n \notin Peers(e)
     /\ \/ /\ Cardinality(Peers(e)) < MaxPeers
           /\ \/ native[n].state = "connecting"
                   /\ native' = [native EXCEPT ![n].owner = e] /\ UNCHANGED endpoint
              \/ drop(e, endpoint[e], n)   \* accepting fails
        \/ native' = [native EXCEPT ![n] = Closed(n)] /\ UNCHANGED endpoint
  \/ /\ state = "connecting" /\ n \in Peers(e)
     /\ UNCHANGED <<endpoint, native>>
  \/ /\ state # "connecting" /\ n \notin Peers(e)
     /\ UNCHANGED <<endpoint, native>>
  \/ /\ state = "connected" /\ n \in Peers(e)
     /\ \/ drop(e, endpoint[e], n)
        \/ /\ ~native[n].connected
           /\ \E ep \in push(endpoint[e], Event("connected", n, 0)) :
                /\ endpoint' = [endpoint EXCEPT ![e] = ep]
                /\ native' = [m \in Natives |->
                     IF ep.stopped /\ native[m].owner = e THEN Closed(m)
                     ELSE IF m = n THEN [native[m] EXCEPT !.connected = TRUE] ELSE native[m]]
  \/ state = "lost" /\ n \in Peers(e) /\ drop(e, endpoint[e], n)
  \/ /\ state = "connecting" /\ n \notin Peers(e)   \* the callback failed
     /\ Becomes(e, overflow(endpoint[e]), {n})

\* Wrong variant of status_changed: nobody closes what no endpoint owns.
ChangeIgnored(t) ==
  /\ poller[t].at = "callbacks" /\ callbacks # <<>>
  /\ callbacks' = Tail(callbacks)
  /\ LET n == Head(callbacks).native IN
       IF \E e \in Endpoints : owns(e, n)
       THEN \E e \in Endpoints : owns(e, n) /\ on_status(e, n, Head(callbacks).state)
       ELSE UNCHANGED <<endpoint, native>>
  /\ UNCHANGED <<initialized, poller, messages, seen>>

\* status_changed, out of RunCallbacks: the owner handles it; an inbound
\* connection without one is closed.
status_changed(t) ==
  /\ poller[t].at = "callbacks" /\ callbacks # <<>>
  /\ callbacks' = Tail(callbacks)
  /\ LET n == Head(callbacks).native IN
       IF \E e \in Endpoints : owns(e, n)
       THEN \E e \in Endpoints : owns(e, n) /\ on_status(e, n, Head(callbacks).state)
       ELSE /\ native' = IF Head(callbacks).state = "connecting"
                         THEN [native EXCEPT ![n] = Closed(n)] ELSE native
            /\ UNCHANGED endpoint
  /\ UNCHANGED <<initialized, poller, messages, seen>>

CallbacksDone(t) ==
  /\ poller[t].at = "callbacks" /\ callbacks = <<>>
  /\ poller' = [poller EXCEPT ![t].at = "receive", ![t].rest = Endpoints]
  /\ UNCHANGED <<initialized, endpoint, native, callbacks, messages, seen>>

\* Wrong variant of receive: a message may come before the connection's event.
ReceiveUnconnected(t, e) ==
  /\ poller[t].at = "receive" /\ e \in poller[t].rest /\ ~endpoint[e].stopped /\ endpoint[e].inbox # <<>>
  /\ LET m == Head(endpoint[e].inbox)
         read == [endpoint[e] EXCEPT !.inbox = Tail(@)]
     IN
       \/ m.native \notin Peers(e) /\ Becomes(e, read, {})
       \/ m.native \in Peers(e) /\ m.size > MaxSize /\ drop(e, read, m.native)
       \/ /\ m.native \in Peers(e) /\ m.size <= MaxSize
          /\ \E ep \in push(read, Event("message", m.native, m.size)) : Becomes(e, ep, {})
  /\ UNCHANGED <<initialized, callbacks, poller, messages, seen>>

\* receive(): one message of an endpoint's poll group.
receive(t, e) ==
  /\ poller[t].at = "receive" /\ e \in poller[t].rest /\ ~endpoint[e].stopped /\ endpoint[e].inbox # <<>>
  /\ LET m == Head(endpoint[e].inbox)
         read == [endpoint[e] EXCEPT !.inbox = Tail(@)]
         deliverable == m.size <= MaxSize /\ native[m.native].connected
     IN
       \/ m.native \notin Peers(e) /\ Becomes(e, read, {})
       \/ m.native \in Peers(e) /\ ~deliverable /\ drop(e, read, m.native)
       \/ /\ m.native \in Peers(e) /\ deliverable
          /\ \E ep \in push(read, Event("message", m.native, m.size)) : Becomes(e, ep, {})
  /\ UNCHANGED <<initialized, callbacks, poller, messages, seen>>

\* The poll group cannot be read.
ReceiveFails(t, e) ==
  /\ poller[t].at = "receive" /\ e \in poller[t].rest /\ ~endpoint[e].stopped
  /\ Becomes(e, overflow(endpoint[e]), {})
  /\ UNCHANGED <<initialized, callbacks, poller, messages, seen>>

\* The endpoint's messages, or its budget for this pump, are used up.
Received(t, e) ==
  /\ poller[t].at = "receive" /\ e \in poller[t].rest
  /\ poller' = [poller EXCEPT ![t].rest = @ \ {e}]
  /\ UNCHANGED <<initialized, endpoint, native, callbacks, messages, seen>>

PumpDone(t) ==
  /\ poller[t].at = "receive" /\ poller[t].rest = {}
  /\ At(t, "retake")
  /\ UNCHANGED <<initialized, endpoint, native, callbacks, messages, seen>>
-----------------------------------------------------------------------------
Next ==
  \/ \E e \in Ids :
       \/ create(e) \/ listen(e) \/ destroy(e)
       \/ \E n \in Natives : connect(e, n) \/ disconnect(e, n) \/ GnsInbound(e, n)
  \/ \E n \in Natives :
       \/ GnsConnected(n) \/ GnsLost(n)
       \/ \E size \in Sizes : GnsMessage(n, size)
  \/ \E t \in Pollers :
       \/ take(t) \/ TakesNothing(t) \/ Wakes(t)
       \/ status_changed(t) \/ CallbacksDone(t) \/ PumpDone(t)
       \/ \E e \in Ids : poll(t, e) \/ receive(t, e) \/ ReceiveFails(t, e) \/ Received(t, e)

Spec == Init /\ [][Next]_vars
-----------------------------------------------------------------------------
\* What polls return for a peer is in order: CONNECTED first and once, messages
\* only after it, DISCONNECTED once and last, and nothing after OVERFLOW ("Do
\* not keep a partial OPEN/MESSAGE/CLOSE history").
EventsInOrder ==
  \A n \in Natives : \A i \in DOMAIN seen[n] :
    /\ seen[n][i] = "connected" => i = 1
    /\ seen[n][i] = "message" => seen[n][1] = "connected"
    /\ seen[n][i] \in {"disconnected", "overflow"} =>
         \A j \in (i + 1)..Len(seen[n]) : seen[n][i] = "disconnected" /\ seen[n][j] = "overflow"

\* sums[i] is what the first i queued events cost together, a running total
\* that never decreases.
IsRunningTotal(sums, events) ==
  /\ sums[0] = 0
  /\ \A i \in 1..Len(events) : sums[i] = sums[i - 1] + Cost(events[i])
  /\ \A i, j \in 0..Len(events) : i <= j => sums[i] <= sums[j]

\* The byte count is what the queued events cost, within the limits.
Accounted(events, bytes) ==
  /\ Len(events) <= MaxEvents
  /\ \E sums \in [0..Len(events) -> 0..MaxEventBytes] :
       IsRunningTotal(sums, events) /\ bytes = sums[Len(events)]

\* GNS lives exactly as long as there are endpoints, queues and peers keep their
\* limits and the byte count is exact, and no native connection is lost sight
\* of: an endpoint has it as a peer, or its first status change is to come.
\* (The state is well typed, too.)
ResourcesExact ==
  /\ TypeOK
  /\ initialized = (Endpoints # {})
  /\ \A e \in Ids :
       /\ Accounted(endpoint[e].events, endpoint[e].bytes)
       /\ Cardinality(Peers(e)) <= MaxPeers
       /\ Peers(e) # {} => e \in Endpoints /\ ~endpoint[e].stopped
  /\ \A n \in Natives :
       native[n].state \in Open =>
         \/ native[n].owner # 0
         \/ \E i \in DOMAIN callbacks : callbacks[i] = [native |-> n, state |-> "connecting"]
=============================================================================
