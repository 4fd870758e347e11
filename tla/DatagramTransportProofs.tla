----------------------- MODULE DatagramTransportProofs -----------------------
(***************************************************************************)
(* Proofs about the datagram endpoints, for any number of endpoints,       *)
(* connections and pollers and all limits: the events of a peer come in    *)
(* order, and the queues, the peer tables, the native connections and the  *)
(* GNS runtime are accounted for.                                          *)
(***************************************************************************)
EXTENDS DatagramTransport, FiniteSetTheorems, TLAPS

\* The records.
QueuedEvent == [kind : {"connected", "message", "disconnected"}, peer : Natives, size : Nat]
Message == [native : Natives, size : Nat]
Change == [native : Natives, state : {"connecting", "connected", "lost"}]
EndpointRecord ==
  [made : BOOLEAN, listed : BOOLEAN, listening : BOOLEAN, stopped : BOOLEAN, overflow : BOOLEAN,
   reported : BOOLEAN, events : Seq(QueuedEvent), bytes : Nat, inbox : Seq(Message)]
NativeRecord ==
  [state : Open \cup {"unused", "closed"}, of : Ids \cup {0}, inbound : BOOLEAN,
   owner : Ids \cup {0}, connected : BOOLEAN]
PollerRecord ==
  [at : Holding \cup {"idle", "wait"}, of : Ids \cup {0}, rest : SUBSET Ids]

\* An endpoint by itself.
EndpointOK(ep) ==
  /\ ep \in EndpointRecord
  /\ ~ep.made => ep = NoEndpoint
  /\ ep.made => ep.listed \/ ep.stopped
  /\ ep.listed => ep.made
  /\ ep.reported => ep.overflow
  /\ ep.overflow => ep.stopped
  /\ ep.stopped => ep.events = <<>> /\ ~ep.listening
  /\ Accounted(ep.events, ep.bytes)

\* What polls said of peer n, and what is queued to be said, in order.
Says(events, i, n, kind) == events[i].peer = n /\ events[i].kind = kind
Ended == {"disconnected", "overflow"}
Ordered(said) ==
  \A i \in 1..Len(said) :
    /\ said[i] = "connected" => i = 1
    /\ said[i] = "message" => said[1] = "connected"
    /\ said[i] \in Ended =>
         \A j \in (i + 1)..Len(said) : said[i] = "disconnected" /\ said[j] = "overflow"
Kinds == {"connected", "message", "disconnected", "overflow"}
Alive(said) == \A i \in 1..Len(said) : said[i] \notin Ended
Story(n, events, said) ==
  /\ said \in Seq(Kinds) /\ Ordered(said)
  /\ \A i \in 1..Len(events) : events[i].peer = n =>
       /\ Alive(said)
       /\ events[i].kind = "connected" =>
            said = <<>> /\ \A j \in 1..(i - 1) : events[j].peer # n
       /\ events[i].kind = "message" =>
            (said # <<>> /\ said[1] = "connected") \/ \E j \in 1..(i - 1) : Says(events, j, n, "connected")
       /\ events[i].kind = "disconnected" => \A j \in (i + 1)..Len(events) : events[j].peer # n

\* Nothing is said of n yet; its CONNECTED is; its DISCONNECTED is not.
Quiet(n, events, said) == said = <<>> /\ \A i \in 1..Len(events) : events[i].peer # n
Begun(n, events, said) ==
  (said # <<>> /\ said[1] = "connected") \/ \E j \in 1..Len(events) : Says(events, j, n, "connected")
NotEnded(n, events, said) ==
  Alive(said) /\ \A i \in 1..Len(events) : ~Says(events, i, n, "disconnected")

\* The first status change of n is still to come.
FirstChange(n) == [native |-> n, state |-> "connecting"]
Awaits(n, changes) == \E i \in 1..Len(changes) : changes[i] = FirstChange(n)
Once(n, changes) ==
  \A i, j \in 1..Len(changes) : changes[i] = FirstChange(n) /\ changes[j] = FirstChange(n) => i = j

\* A native connection c, its endpoint ep, what was said of it and the status
\* changes to come.
NativeOK(n, c, ep, said, changes) ==
  /\ c \in NativeRecord /\ Once(n, changes)
  /\ c.state = "unused" => c = NoNative /\ said = <<>> /\ ~Awaits(n, changes)
  /\ c.state # "unused" =>
       /\ c.of \in Ids /\ ep.made
       /\ c.owner \in {0, c.of}
       /\ Story(n, ep.events, said)
       /\ \A i \in 1..Len(said) : said[i] = "overflow" => ep.reported
       /\ c.connected => c.owner # 0
       /\ c.owner # 0 => /\ c.state \in Open /\ ~ep.stopped
                         /\ c.connected => Begun(n, ep.events, said) /\ NotEnded(n, ep.events, said)
                         /\ ~c.connected => Quiet(n, ep.events, said)
       /\ c.state \in Open /\ c.owner = 0 => Awaits(n, changes)
       /\ c.inbound /\ Awaits(n, changes) => c.owner = 0 /\ (~ep.stopped => Quiet(n, ep.events, said))

\* Events are about connections of their endpoint.
AtHome(e) == \A i \in 1..Len(endpoint[e].events) : native[endpoint[e].events[i].peer].of = e

\* The peer table of an endpoint.
PeersOK(e) == IsFiniteSet(Peers(e)) /\ Cardinality(Peers(e)) <= MaxPeers

\* One poll at a time holds the mutex.
PollersOK ==
  /\ poller \in [Pollers -> PollerRecord]
  /\ \A t \in Pollers : poller[t].at # "idle" => poller[t].of \in Ids
  /\ \A t, u \in Pollers : poller[t].at \in Holding /\ poller[u].at \in Holding => t = u

\* What is left to read from was an endpoint when the reading began.
RestMade == \A t \in Pollers : \A e \in poller[t].rest : endpoint[e].made

Functions ==
  /\ DOMAIN endpoint = Ids /\ DOMAIN native = Natives /\ DOMAIN seen = Natives
  /\ endpoint = [e \in Ids |-> endpoint[e]] /\ native = [n \in Natives |-> native[n]]
  /\ seen = [n \in Natives |-> seen[n]]
  /\ callbacks \in Seq(Change) /\ messages \in 0..MaxMessages /\ initialized \in BOOLEAN

Inv ==
  /\ Functions /\ PollersOK /\ RestMade
  /\ initialized = (Endpoints # {})
  /\ \A e \in Ids : EndpointOK(endpoint[e]) /\ AtHome(e) /\ PeersOK(e)
  /\ \A n \in Natives : NativeOK(n, native[n], endpoint[native[n].of], seen[n], callbacks)
-----------------------------------------------------------------------------
(***************************************************************************)
(* The byte count.                                                         *)
(***************************************************************************)

LEMMA Constants ==
  /\ MaxPeers \in Nat /\ MaxPeers >= 1 /\ MaxEvents \in Nat /\ EventBytes \in Nat /\ MaxSize \in Nat
  /\ MaxEventBytes \in Nat /\ Sizes \subseteq Nat /\ MaxMessages \in Nat /\ 0 \notin Ids
BY DatagramAssumption DEF valid_options

LEMMA CostIsNat == \A event \in QueuedEvent : Cost(event) \in Nat
BY Constants DEF QueuedEvent, Cost

LEMMA NothingAccounted == Accounted(<<>>, 0)
<1> DEFINE s == [i \in 0..0 |-> 0]
<1>1. Len(<<>>) = 0 /\ 1..0 = {} /\ s[0] = 0
  OBVIOUS
<1>2. s \in [0..0 -> 0..MaxEventBytes]
  BY Constants
<1>3. \A i, j \in 0..0 : i <= j => s[i] <= s[j]
  OBVIOUS
<1>4. IsRunningTotal(s, <<>>)
  BY <1>1, <1>3 DEF IsRunningTotal
<1> QED  BY <1>1, <1>2, <1>4, Constants DEF Accounted

LEMMA AccountedAppend ==
  ASSUME NEW events \in Seq(QueuedEvent), NEW bytes, Accounted(events, bytes),
         NEW ev \in QueuedEvent, Len(events) < MaxEvents, Cost(ev) <= MaxEventBytes - bytes
  PROVE  Accounted(Append(events, ev), bytes + Cost(ev))
<1> DEFINE n == Len(events)
           new == Append(events, ev)
<1>1. PICK sums \in [0..n -> 0..MaxEventBytes] : IsRunningTotal(sums, events) /\ bytes = sums[n]
  BY DEF Accounted
<1>2. n \in Nat /\ Len(new) = n + 1 /\ new[n + 1] = ev /\ \A i \in 1..n : new[i] = events[i]
  OBVIOUS
<1>3. /\ Cost(ev) \in Nat /\ bytes \in Nat /\ bytes + Cost(ev) \in 0..MaxEventBytes /\ n + 1 <= MaxEvents
  BY <1>1, <1>2, CostIsNat, Constants
<1>4. /\ sums[0] = 0 /\ \A i \in 1..n : sums[i] = sums[i - 1] + Cost(events[i])
      /\ \A i, j \in 0..n : i <= j => sums[i] <= sums[j]
  BY <1>1 DEF IsRunningTotal
<1> HIDE DEF n, new
<1>5. PICK s \in [0..(n + 1) -> 0..MaxEventBytes] :
        \A i \in 0..(n + 1) : s[i] = IF i = n + 1 THEN bytes + Cost(ev) ELSE sums[i]
  <2> DEFINE t == [i \in 0..(n + 1) |-> IF i = n + 1 THEN bytes + Cost(ev) ELSE sums[i]]
  <2>1. t \in [0..(n + 1) -> 0..MaxEventBytes]
    BY <1>1, <1>2, <1>3
  <2> QED  BY <2>1
<1>6. s[0] = 0
  BY <1>2, <1>4, <1>5
<1>7. \A i \in 1..(n + 1) : s[i] = s[i - 1] + Cost(new[i])
  <2> TAKE i \in 1..(n + 1)
  <2>1. CASE i = n + 1
    <3>1. s[i] = bytes + Cost(ev) /\ s[i - 1] = bytes
      BY <1>1, <1>2, <1>5, <2>1
    <3> QED  BY <1>2, <2>1, <3>1
  <2>2. CASE i # n + 1
    <3>1. i \in 1..n /\ i - 1 \in 0..n
      BY <1>2, <2>2
    <3>2. s[i] = sums[i] /\ s[i - 1] = sums[i - 1]
      BY <1>2, <1>5, <3>1
    <3> QED  BY <1>2, <1>4, <3>1, <3>2
  <2> QED  BY <2>1, <2>2
<1>8. \A i, j \in 0..(n + 1) : i <= j => s[i] <= s[j]
  <2> SUFFICES ASSUME NEW i \in 0..(n + 1), NEW j \in 0..(n + 1), i <= j PROVE s[i] <= s[j]
    OBVIOUS
  <2>1. CASE i = n + 1
    <3>1. j = n + 1
      BY <1>2, <2>1
    <3> QED  BY <1>3, <1>5, <2>1, <3>1
  <2>2. CASE i # n + 1 /\ j = n + 1
    <3>1. i \in 0..n /\ n \in 0..n /\ i <= n
      BY <1>2, <2>2
    <3>2. sums[i] <= sums[n] /\ sums[i] \in Nat /\ s[i] = sums[i] /\ s[j] = bytes + Cost(ev)
      BY <1>1, <1>2, <1>4, <1>5, <2>2, <3>1, Constants
    <3> QED  BY <1>1, <1>3, <3>2
  <2>3. CASE i # n + 1 /\ j # n + 1
    <3>1. i \in 0..n /\ j \in 0..n
      BY <1>2, <2>3
    <3> QED  BY <1>4, <1>5, <2>3, <3>1
  <2> QED  BY <2>1, <2>2, <2>3
<1>9. IsRunningTotal(s, new)
  BY <1>2, <1>6, <1>7, <1>8 DEF IsRunningTotal
<1>10. bytes + Cost(ev) = s[n + 1]
  BY <1>2, <1>5
<1> QED  BY <1>2, <1>3, <1>5, <1>9, <1>10 DEF Accounted, new

LEMMA AccountedTail ==
  ASSUME NEW events \in Seq(QueuedEvent), NEW bytes, Accounted(events, bytes), events # <<>>
  PROVE  /\ Accounted(Tail(events), bytes - Cost(Head(events)))
         /\ bytes - Cost(Head(events)) \in Nat
<1> DEFINE n == Len(events)
           new == Tail(events)
           c == Cost(Head(events))
<1>1. PICK sums \in [0..n -> 0..MaxEventBytes] : IsRunningTotal(sums, events) /\ bytes = sums[n]
  BY DEF Accounted
<1>2. /\ n \in Nat /\ n >= 1 /\ n <= MaxEvents /\ Len(new) = n - 1 /\ Head(events) = events[1]
      /\ \A i \in 1..(n - 1) : new[i] = events[i + 1]
  BY DEF Accounted
<1>3. \A i \in 1..n : Cost(events[i]) \in Nat
  BY CostIsNat
<1>4. /\ sums[0] = 0 /\ \A i \in 1..n : sums[i] = sums[i - 1] + Cost(events[i])
      /\ \A i, j \in 0..n : i <= j => sums[i] <= sums[j]
      /\ \A i \in 0..n : sums[i] \in 0..MaxEventBytes
  BY <1>1 DEF IsRunningTotal
<1>5. c = Cost(events[1]) /\ c \in Nat /\ 1 \in 1..n
  BY <1>2, <1>3
<1> HIDE DEF n, new, c
<1>6. sums[1] = c
  <2>1. sums[1] = sums[1 - 1] + Cost(events[1])
    BY <1>4, <1>5
  <2> QED  BY <1>4, <1>5, <2>1
<1>7. \A i \in 1..n : c <= sums[i]
  BY <1>2, <1>4, <1>6
<1>8. PICK s \in [0..(n - 1) -> 0..MaxEventBytes] : \A i \in 0..(n - 1) : s[i] = sums[i + 1] - c
  <2> DEFINE t == [i \in 0..(n - 1) |-> sums[i + 1] - c]
  <2>1. \A i \in 0..(n - 1) : sums[i + 1] - c \in 0..MaxEventBytes
    BY <1>2, <1>4, <1>5, <1>7, Constants
  <2>2. t \in [0..(n - 1) -> 0..MaxEventBytes]
    BY <2>1
  <2> QED  BY <2>2
<1>9. s[0] = 0
  BY <1>2, <1>5, <1>6, <1>8
<1>10. \A i \in 1..(n - 1) : s[i] = s[i - 1] + Cost(new[i])
  <2> TAKE i \in 1..(n - 1)
  <2>1. i + 1 \in 1..n /\ i \in 0..(n - 1) /\ i - 1 \in 0..(n - 1) /\ i \in 0..n /\ i + 1 \in 0..n
    BY <1>2
  <2>2. sums[i + 1] = sums[(i + 1) - 1] + Cost(events[i + 1])
    BY <1>4, <2>1
  <2>3. s[i] = sums[i + 1] - c /\ s[i - 1] = sums[(i - 1) + 1] - c
    BY <1>8, <2>1
  <2>4. (i + 1) - 1 = i /\ (i - 1) + 1 = i
    BY <2>1
  <2>5. sums[i] \in Nat /\ sums[i + 1] \in Nat /\ Cost(events[i + 1]) \in Nat
    BY <1>3, <1>4, <2>1, Constants
  <2>6. new[i] = events[i + 1]
    BY <1>2
  <2>7. s[i - 1] = sums[i] - c /\ sums[i + 1] = sums[i] + Cost(events[i + 1])
    BY <2>2, <2>3, <2>4
  <2> QED  BY <1>5, <2>3, <2>5, <2>6, <2>7
<1>11. \A i, j \in 0..(n - 1) : i <= j => s[i] <= s[j]
  <2> SUFFICES ASSUME NEW i \in 0..(n - 1), NEW j \in 0..(n - 1), i <= j PROVE s[i] <= s[j]
    OBVIOUS
  <2>1. i + 1 \in 0..n /\ j + 1 \in 0..n /\ i + 1 <= j + 1
    BY <1>2
  <2>2. sums[i + 1] <= sums[j + 1] /\ sums[i + 1] \in Nat /\ sums[j + 1] \in Nat
    BY <1>4, <2>1, Constants
  <2> QED  BY <1>5, <1>8, <2>2
<1>12. IsRunningTotal(s, new)
  BY <1>2, <1>9, <1>10, <1>11 DEF IsRunningTotal
<1>13. bytes - c = s[n - 1]
  <2>1. n - 1 \in 0..(n - 1) /\ (n - 1) + 1 = n
    BY <1>2
  <2> QED  BY <1>1, <1>8, <2>1
<1>14. n - 1 <= MaxEvents /\ n - 1 \in 0..(n - 1)
  BY <1>2, Constants
<1>15. bytes - c \in Nat
  BY <1>8, <1>13, <1>14, Constants
<1>16. Accounted(new, bytes - c)
  BY <1>2, <1>8, <1>12, <1>13, <1>14 DEF Accounted
<1> QED  BY <1>15, <1>16 DEF new, c
-----------------------------------------------------------------------------
(***************************************************************************)
(* The story of a peer.                                                    *)
(***************************************************************************)

\* A list with one more element, and without its head.
LEMMA Appended ==
  ASSUME NEW S, NEW q \in Seq(S), NEW x \in S
  PROVE  /\ Append(q, x) \in Seq(S) /\ Len(q) \in Nat /\ Len(Append(q, x)) = Len(q) + 1
         /\ Append(q, x) # <<>>
         /\ \A i \in 1..(Len(q) + 1) : Append(q, x)[i] = IF i = Len(q) + 1 THEN x ELSE q[i]
OBVIOUS

LEMMA Beheaded ==
  ASSUME NEW S, NEW q \in Seq(S), q # <<>>
  PROVE  /\ Tail(q) \in Seq(S) /\ Len(q) \in Nat /\ Len(q) >= 1 /\ Len(Tail(q)) = Len(q) - 1
         /\ Head(q) = q[1] /\ Head(q) \in S
         /\ \A i \in 1..(Len(q) - 1) : Tail(q)[i] = q[i + 1]
OBVIOUS

\* An event of another peer, or one that fits.
LEMMA StoryAppend ==
  ASSUME NEW n, NEW events \in Seq(QueuedEvent), NEW said, Story(n, events, said), NEW ev \in QueuedEvent,
         ev.peer = n =>
           /\ NotEnded(n, events, said)
           /\ ev.kind = "connected" => Quiet(n, events, said)
           /\ ev.kind = "message" => Begun(n, events, said)
  PROVE  Story(n, Append(events, ev), said)
<1> DEFINE k == Len(events)
           new == Append(events, ev)
<1>1. /\ k \in Nat /\ Len(new) = k + 1
      /\ \A i \in 1..(k + 1) : new[i] = IF i = k + 1 THEN ev ELSE events[i]
  BY Appended
<1>2. ev.kind \in {"connected", "message", "disconnected"}
  BY DEF QueuedEvent
<1> HIDE DEF new
<1>3. \A i \in 1..k : new[i] = events[i] /\ \A kind : Says(new, i, n, kind) <=> Says(events, i, n, kind)
  BY <1>1 DEF Says
<1>4. ASSUME NEW i \in 1..(k + 1), new[i].peer = n
      PROVE  /\ Alive(said)
             /\ new[i].kind = "connected" =>
                  said = <<>> /\ \A j \in 1..(i - 1) : new[j].peer # n
             /\ new[i].kind = "message" =>
                  (said # <<>> /\ said[1] = "connected") \/ \E j \in 1..(i - 1) : Says(new, j, n, "connected")
             /\ new[i].kind = "disconnected" => \A j \in (i + 1)..(k + 1) : new[j].peer # n
  <2>1. CASE i = k + 1
    <3>1. new[i] = ev /\ i - 1 = k /\ (i + 1)..(k + 1) = {}
      BY <1>1, <2>1
    <3>2. Alive(said)
      BY <1>4, <3>1 DEF NotEnded
    <3>3. ev.kind = "connected" => said = <<>> /\ \A j \in 1..k : new[j].peer # n
      BY <1>3, <1>4, <3>1 DEF Quiet
    <3>4. ev.kind = "message" =>
            (said # <<>> /\ said[1] = "connected") \/ \E j \in 1..k : Says(new, j, n, "connected")
      BY <1>3, <1>4, <3>1 DEF Begun
    <3> QED  BY <3>1, <3>2, <3>3, <3>4
  <2>2. CASE i # k + 1
    <3>1. i \in 1..k /\ new[i] = events[i] /\ \A j \in 1..(i - 1) : j \in 1..k
      BY <1>1, <1>3, <2>2
    <3>2. /\ Alive(said)
          /\ events[i].kind = "connected" =>
               said = <<>> /\ \A j \in 1..(i - 1) : events[j].peer # n
          /\ events[i].kind = "message" =>
               (said # <<>> /\ said[1] = "connected") \/ \E j \in 1..(i - 1) : Says(events, j, n, "connected")
          /\ events[i].kind = "disconnected" => \A j \in (i + 1)..k : events[j].peer # n
      BY <1>4, <3>1 DEF Story
    <3>3. events[i].kind = "disconnected" => \A j \in (i + 1)..(k + 1) : new[j].peer # n
      <4> SUFFICES ASSUME events[i].kind = "disconnected", NEW j \in (i + 1)..(k + 1) PROVE new[j].peer # n
        OBVIOUS
      <4>1. CASE j = k + 1
        <5>1. Says(events, i, n, "disconnected")
          BY <1>4, <3>1 DEF Says
        <5> QED  BY <1>1, <3>1, <4>1, <5>1 DEF NotEnded
      <4>2. CASE j # k + 1
        <5>1. j \in (i + 1)..k /\ j \in 1..k
          BY <1>1, <3>1, <4>2
        <5> QED  BY <1>3, <3>2, <5>1
      <4> QED  BY <4>1, <4>2
    <3> QED  BY <1>3, <3>1, <3>2, <3>3
  <2> QED  BY <2>1, <2>2
<1> QED  BY <1>1, <1>4 DEF Story, new

\* What an appended event leaves true.
LEMMA MoodAppend ==
  ASSUME NEW n, NEW events \in Seq(QueuedEvent), NEW said, NEW ev \in QueuedEvent
  PROVE  /\ ev.peer # n /\ Quiet(n, events, said) => Quiet(n, Append(events, ev), said)
         /\ Begun(n, events, said) => Begun(n, Append(events, ev), said)
         /\ ev.peer = n /\ ev.kind = "connected" => Begun(n, Append(events, ev), said)
         /\ (ev.peer = n => ev.kind # "disconnected") /\ NotEnded(n, events, said) =>
              NotEnded(n, Append(events, ev), said)
<1> DEFINE k == Len(events)
           new == Append(events, ev)
<1>1. /\ k \in Nat /\ Len(new) = k + 1 /\ k + 1 \in 1..(k + 1) /\ new[k + 1] = ev
      /\ \A i \in 1..(k + 1) : new[i] = IF i = k + 1 THEN ev ELSE events[i]
  BY Appended
<1> HIDE DEF new
<1>2. \A i \in 1..(k + 1) : (i = k + 1 /\ new[i] = ev) \/ (i \in 1..k /\ new[i] = events[i])
  BY <1>1
<1>3. \A i \in 1..k : i \in 1..(k + 1) /\ new[i] = events[i]
  BY <1>1
<1>4. ev.peer # n /\ Quiet(n, events, said) => Quiet(n, new, said)
  BY <1>1, <1>2 DEF Quiet
<1>5. Begun(n, events, said) => Begun(n, new, said)
  BY <1>1, <1>3 DEF Begun, Says
<1>6. ev.peer = n /\ ev.kind = "connected" => Begun(n, new, said)
  BY <1>1 DEF Begun, Says
<1>7. (ev.peer = n => ev.kind # "disconnected") /\ NotEnded(n, events, said) => NotEnded(n, new, said)
  BY <1>1, <1>2 DEF NotEnded, Says
<1> QED  BY <1>4, <1>5, <1>6, <1>7 DEF new

\* What was said stays in order when the head of the queue is said too.
LEMMA OrderedAppend ==
  ASSUME NEW said \in Seq(Kinds), Ordered(said), NEW kind \in Kinds,
         kind = "connected" => said = <<>>,
         kind = "message" => said # <<>> /\ said[1] = "connected",
         kind # "overflow" => Alive(said),
         kind = "overflow" => \A i \in 1..Len(said) : said[i] # "overflow"
  PROVE  Append(said, kind) \in Seq(Kinds) /\ Ordered(Append(said, kind))
<1> DEFINE k == Len(said)
           new == Append(said, kind)
<1>1. /\ k \in Nat /\ Len(new) = k + 1 /\ new \in Seq(Kinds)
      /\ \A i \in 1..(k + 1) : new[i] = IF i = k + 1 THEN kind ELSE said[i]
  BY Appended
<1>2. said # <<>> => 1 \in 1..k /\ new[1] = said[1]
  BY <1>1
<1>3. said = <<>> => k = 0
  OBVIOUS
<1> HIDE DEF new
<1>4. ASSUME NEW i \in 1..(k + 1)
      PROVE  /\ new[i] = "connected" => i = 1
             /\ new[i] = "message" => new[1] = "connected"
             /\ new[i] \in Ended =>
                  \A j \in (i + 1)..(k + 1) : new[i] = "disconnected" /\ new[j] = "overflow"
  <2>1. CASE i = k + 1
    <3>1. new[i] = kind /\ (i + 1)..(k + 1) = {}
      BY <1>1, <2>1
    <3> QED  BY <1>1, <1>2, <1>3, <2>1, <3>1
  <2>2. CASE i # k + 1
    <3>1. i \in 1..k /\ new[i] = said[i] /\ said # <<>>
      BY <1>1, <2>2
    <3>2. /\ said[i] = "connected" => i = 1
          /\ said[i] = "message" => said[1] = "connected"
          /\ said[i] \in Ended => \A j \in (i + 1)..k : said[i] = "disconnected" /\ said[j] = "overflow"
      BY <3>1 DEF Ordered
    <3>3. ASSUME said[i] \in Ended, NEW j \in (i + 1)..(k + 1)
          PROVE  new[i] = "disconnected" /\ new[j] = "overflow"
      <4>1. kind = "overflow" /\ said[i] = "disconnected"
        BY <3>1, <3>3 DEF Alive, Ended
      <4>2. CASE j = k + 1
        BY <1>1, <3>1, <4>1, <4>2
      <4>3. CASE j # k + 1
        <5>1. j \in (i + 1)..k /\ j \in 1..k /\ new[j] = said[j]
          BY <1>1, <3>1, <4>3
        <5> QED  BY <3>1, <3>2, <3>3, <4>1, <5>1
      <4> QED  BY <4>2, <4>3
    <3> QED  BY <1>2, <3>1, <3>2, <3>3
  <2> QED  BY <2>1, <2>2
<1> QED  BY <1>1, <1>4 DEF Ordered, new
\* The head of the queue is read: it joins what was said of its peer.
Overflowed(said) == \E i \in 1..Len(said) : said[i] = "overflow"
Told(n, events, said, next) ==
  next = IF Head(events).peer = n THEN Append(said, Head(events).kind) ELSE said

LEMMA StoryTake ==
  ASSUME NEW n, NEW events \in Seq(QueuedEvent), NEW said, Story(n, events, said), events # <<>>,
         NEW next, Told(n, events, said, next)
  PROVE  /\ Story(n, Tail(events), next)
         /\ Quiet(n, events, said) => Quiet(n, Tail(events), next)
         /\ Begun(n, events, said) => Begun(n, Tail(events), next)
         /\ NotEnded(n, events, said) => NotEnded(n, Tail(events), next)
         /\ Overflowed(next) => Overflowed(said)
<1> USE DEF Told, Overflowed
<1> DEFINE k == Len(events)
           new == Tail(events)
           h == Head(events)
<1>1. /\ k \in Nat /\ k >= 1 /\ Len(new) = k - 1 /\ h = events[1] /\ h \in QueuedEvent
      /\ \A i \in 1..(k - 1) : new[i] = events[i + 1]
  BY Beheaded
<1>2. h.kind \in {"connected", "message", "disconnected"} /\ h.kind \in Kinds
  BY <1>1 DEF QueuedEvent, Kinds
<1>3. said \in Seq(Kinds) /\ Ordered(said)
  BY DEF Story
<1> HIDE DEF new, h
<1>4. \A i \in 1..(k - 1) : i + 1 \in 1..k /\ i + 1 # 1
  BY <1>1
<1>5. \A i \in 1..k : i = 1 \/ (i - 1 \in 1..(k - 1) /\ (i - 1) + 1 = i)
  BY <1>1
<1>6. \A i \in 1..(k - 1) : /\ new[i] = events[i + 1]
                            /\ \A kind : Says(new, i, n, kind) <=> Says(events, i + 1, n, kind)
  BY <1>1 DEF Says
<1>7. \A i \in 1..k : events[i].peer = n =>
        /\ Alive(said)
        /\ events[i].kind = "connected" => said = <<>> /\ \A j \in 1..(i - 1) : events[j].peer # n
        /\ events[i].kind = "message" =>
             (said # <<>> /\ said[1] = "connected") \/ \E j \in 1..(i - 1) : Says(events, j, n, "connected")
        /\ events[i].kind = "disconnected" => \A j \in (i + 1)..k : events[j].peer # n
  BY DEF Story
<1>8. CASE h.peer # n
  <2>1. next = said /\ events[1].peer # n
    BY <1>1, <1>8 DEF h
  <2>2. ASSUME NEW i \in 1..(k - 1), new[i].peer = n
        PROVE  /\ Alive(said)
               /\ new[i].kind = "connected" => said = <<>> /\ \A j \in 1..(i - 1) : new[j].peer # n
               /\ new[i].kind = "message" =>
                    \/ said # <<>> /\ said[1] = "connected"
                    \/ \E j \in 1..(i - 1) : Says(new, j, n, "connected")
               /\ new[i].kind = "disconnected" => \A j \in (i + 1)..(k - 1) : new[j].peer # n
    <3>1. i + 1 \in 1..k /\ (i + 1) - 1 = i /\ new[i] = events[i + 1]
      BY <1>1, <1>4, <1>6
    <3>2. /\ Alive(said)
          /\ new[i].kind = "connected" => said = <<>> /\ \A j \in 1..i : events[j].peer # n
          /\ new[i].kind = "message" =>
               (said # <<>> /\ said[1] = "connected") \/ \E j \in 1..i : Says(events, j, n, "connected")
          /\ new[i].kind = "disconnected" => \A j \in ((i + 1) + 1)..k : events[j].peer # n
      BY <1>7, <2>2, <3>1
    <3>3. new[i].kind = "connected" => \A j \in 1..(i - 1) : new[j].peer # n
      <4> SUFFICES ASSUME new[i].kind = "connected", NEW j \in 1..(i - 1) PROVE new[j].peer # n
        OBVIOUS
      <4>1. j + 1 \in 1..i /\ j \in 1..(k - 1)
        BY <1>1
      <4> QED  BY <1>6, <3>2, <4>1
    <3>4. ASSUME NEW j \in 1..i, Says(events, j, n, "connected")
          PROVE  \E m \in 1..(i - 1) : Says(new, m, n, "connected")
      <4>1. j # 1
        BY <2>1, <3>4 DEF Says
      <4>2. j - 1 \in 1..(i - 1) /\ j - 1 \in 1..(k - 1) /\ (j - 1) + 1 = j
        BY <1>1, <4>1
      <4>3. Says(new, j - 1, n, "connected") <=> Says(events, (j - 1) + 1, n, "connected")
        BY <1>6, <4>2
      <4> QED  BY <3>4, <4>2, <4>3
    <3>5. new[i].kind = "disconnected" => \A j \in (i + 1)..(k - 1) : new[j].peer # n
      <4> SUFFICES ASSUME new[i].kind = "disconnected", NEW j \in (i + 1)..(k - 1) PROVE new[j].peer # n
        OBVIOUS
      <4>1. j + 1 \in ((i + 1) + 1)..k /\ j \in 1..(k - 1)
        BY <1>1
      <4> QED  BY <1>6, <3>2, <4>1
    <3> QED  BY <3>2, <3>3, <3>4, <3>5
  <2>3. Story(n, new, next)
    BY <1>1, <1>3, <2>1, <2>2 DEF Story
  <2>4. Quiet(n, events, said) => Quiet(n, new, next)
    BY <1>1, <1>4, <1>6, <2>1 DEF Quiet
  <2>5. Begun(n, events, said) => Begun(n, new, next)
    <3>1. ASSUME NEW j \in 1..k, Says(events, j, n, "connected")
          PROVE  \E m \in 1..(k - 1) : Says(new, m, n, "connected")
      <4>1. j # 1
        BY <2>1, <3>1 DEF Says
      <4>2. Says(new, j - 1, n, "connected") <=> Says(events, (j - 1) + 1, n, "connected")
        BY <1>5, <1>6, <4>1
      <4> QED  BY <1>5, <3>1, <4>1, <4>2
    <3> QED  BY <1>1, <2>1, <3>1 DEF Begun
  <2>6. NotEnded(n, events, said) => NotEnded(n, new, next)
    BY <1>1, <1>4, <1>6, <2>1 DEF NotEnded
  <2> QED  BY <2>1, <2>3, <2>4, <2>5, <2>6 DEF new
<1>9. CASE h.peer = n
  <2>1. next = Append(said, h.kind) /\ events[1].peer = n /\ 1 \in 1..k /\ 1..(1 - 1) = {}
    BY <1>1, <1>9 DEF h
  <2>2. /\ Alive(said) /\ (h.kind = "connected" => said = <<>>)
        /\ h.kind = "message" => said # <<>> /\ said[1] = "connected"
        /\ h.kind = "disconnected" => \A j \in 2..k : events[j].peer # n
    BY <1>1, <1>7, <2>1
  <2>3. next \in Seq(Kinds) /\ Ordered(next)
    BY <1>2, <1>3, <2>1, <2>2, OrderedAppend
  <2>4. /\ Len(said) \in Nat /\ Len(next) = Len(said) + 1 /\ next # <<>>
        /\ \A i \in 1..(Len(said) + 1) : next[i] = IF i = Len(said) + 1 THEN h.kind ELSE said[i]
    BY <1>2, <1>3, <2>1, Appended
  <2>5. h.kind # "disconnected" => Alive(next)
    BY <1>2, <2>2, <2>4 DEF Alive, Ended
  <2>6. (said # <<>> /\ said[1] = "connected") \/ h.kind = "connected" => next[1] = "connected"
    <3>1. said # <<>> => 1 \in 1..Len(said) /\ 1 # Len(said) + 1
      BY <1>3, <2>4
    <3>2. said = <<>> => Len(said) = 0
      OBVIOUS
    <3> QED  BY <2>2, <2>4, <3>1, <3>2
  <2>7. \A j \in 1..k : Says(events, j, n, "connected") => j = 1 /\ h.kind = "connected"
    <3> SUFFICES ASSUME NEW j \in 1..k, Says(events, j, n, "connected") PROVE j = 1
      BY <1>1 DEF Says
    <3>1. \A m \in 1..(j - 1) : events[m].peer # n
      BY <1>7 DEF Says
    <3>2. j # 1 => 1 \in 1..(j - 1)
      BY <1>1
    <3> QED  BY <2>1, <3>1, <3>2
  <2>8. ASSUME NEW i \in 1..(k - 1), new[i].peer = n
        PROVE  /\ Alive(next) /\ new[i].kind # "connected"
               /\ new[i].kind = "message" => next # <<>> /\ next[1] = "connected"
               /\ new[i].kind = "disconnected" => \A j \in (i + 1)..(k - 1) : new[j].peer # n
    <3>1. i + 1 \in 1..k /\ i + 1 \in 2..k /\ (i + 1) - 1 = i /\ new[i] = events[i + 1] /\ 1 \in 1..i
      BY <1>1, <1>4, <1>6
    <3>2. /\ new[i].kind = "connected" => \A j \in 1..i : events[j].peer # n
          /\ new[i].kind = "message" =>
               (said # <<>> /\ said[1] = "connected") \/ \E j \in 1..i : Says(events, j, n, "connected")
          /\ new[i].kind = "disconnected" => \A j \in ((i + 1) + 1)..k : events[j].peer # n
      BY <1>7, <2>8, <3>1
    <3>3. Alive(next)
      BY <2>2, <2>5, <2>8, <3>1
    <3>4. new[i].kind # "connected"
      BY <2>1, <3>1, <3>2
    <3>5. new[i].kind = "message" => next[1] = "connected"
      <4>1. \A j \in 1..i : j \in 1..k
        BY <1>1
      <4> QED  BY <2>6, <2>7, <3>2, <4>1
    <3>6. new[i].kind = "disconnected" => \A j \in (i + 1)..(k - 1) : new[j].peer # n
      <4> SUFFICES ASSUME new[i].kind = "disconnected", NEW j \in (i + 1)..(k - 1) PROVE new[j].peer # n
        OBVIOUS
      <4>1. j + 1 \in ((i + 1) + 1)..k /\ j \in 1..(k - 1)
        BY <1>1
      <4> QED  BY <1>6, <3>2, <4>1
    <3> QED  BY <2>4, <3>3, <3>4, <3>5, <3>6
  <2>9. Story(n, new, next)
    BY <1>1, <2>3, <2>8 DEF Story
  <2>10. ~Quiet(n, events, said)
    BY <2>1 DEF Quiet
  <2>11. Begun(n, events, said) => Begun(n, new, next)
    BY <2>4, <2>6, <2>7 DEF Begun
  <2>12. NotEnded(n, events, said) => NotEnded(n, new, next)
    <3> SUFFICES ASSUME NotEnded(n, events, said) PROVE NotEnded(n, new, next)
      OBVIOUS
    <3>1. h.kind # "disconnected"
      BY <1>1, <2>1 DEF NotEnded, Says
    <3> QED  BY <1>1, <1>4, <1>6, <2>5, <3>1 DEF NotEnded
  <2>13. (\E i \in 1..Len(next) : next[i] = "overflow") => \E i \in 1..Len(said) : said[i] = "overflow"
    <3>1. \A i \in 1..(Len(said) + 1) : i = Len(said) + 1 \/ i \in 1..Len(said)
      BY <2>4
    <3> QED  BY <1>2, <2>4, <3>1
  <2> QED  BY <2>9, <2>10, <2>11, <2>12, <2>13 DEF new
<1> QED  BY <1>8, <1>9

\* An empty queue: a story keeps its past, and an overflow may end it.
LEMMA StoryWiped ==
  ASSUME NEW n, NEW events, NEW said, Story(n, events, said)
  PROVE  /\ Story(n, <<>>, said)
         /\ (\A i \in 1..Len(said) : said[i] # "overflow") => Story(n, <<>>, Append(said, "overflow"))
<1>1. Len(<<>>) = 0 /\ 1..0 = {}
  OBVIOUS
<1>2. said \in Seq(Kinds) /\ Ordered(said) /\ "overflow" \in Kinds
  BY DEF Story, Kinds
<1>3. (\A i \in 1..Len(said) : said[i] # "overflow") =>
        Append(said, "overflow") \in Seq(Kinds) /\ Ordered(Append(said, "overflow"))
  BY <1>2, OrderedAppend
<1> QED  BY <1>1, <1>2, <1>3 DEF Story
-----------------------------------------------------------------------------
(***************************************************************************)
(* Endpoints.                                                              *)
(***************************************************************************)

LEMMA NothingYet == EndpointOK(NoEndpoint) /\ NoEndpoint.events = <<>> /\ ~NoEndpoint.stopped
<1>1. NoEndpoint \in EndpointRecord
  BY DEF NoEndpoint, EndpointRecord
<1> QED  BY <1>1, NothingAccounted DEF NoEndpoint, EndpointOK

LEMMA ShutDownType ==
  ASSUME NEW ep \in EndpointRecord, NEW q \in Seq(QueuedEvent), NEW b \in Nat, NEW m \in Seq(Message)
  PROVE  [ep EXCEPT !.stopped = TRUE, !.listening = FALSE, !.events = q, !.bytes = b, !.inbox = m]
           \in EndpointRecord
BY DEF EndpointRecord

LEMMA ShutDown ==
  ASSUME NEW ep, EndpointOK(ep), ep.made
  PROVE  \A ep1 \in {shutdown(ep), overflow(ep)} :
           /\ EndpointOK(ep1) /\ ep1.made /\ ep1.listed = ep.listed /\ ep1.reported = ep.reported
           /\ ep1.stopped /\ ep1.events = <<>>
<1> DEFINE a == shutdown(ep)
           b == overflow(ep)
<1>1. ep \in EndpointRecord
  BY DEF EndpointOK
<1>2. a \in EndpointRecord /\ b \in EndpointRecord
  <2>1. a \in EndpointRecord
    <3>1. <<>> \in Seq(QueuedEvent) /\ <<>> \in Seq(Message) /\ 0 \in Nat
      OBVIOUS
    <3> QED  BY <1>1, <3>1, ShutDownType DEF shutdown
  <2>2. b = [a EXCEPT !.overflow = TRUE]
    BY DEF overflow
  <2> HIDE DEF a, b
  <2> QED  BY <2>1, <2>2 DEF EndpointRecord
<1>3. /\ a.made /\ a.listed = ep.listed /\ a.reported = ep.reported /\ a.stopped /\ a.events = <<>>
      /\ a.bytes = 0 /\ ~a.listening /\ a.overflow = ep.overflow
  BY <1>1 DEF shutdown, EndpointRecord
<1>4. /\ b.made /\ b.listed = ep.listed /\ b.reported = ep.reported /\ b.stopped /\ b.events = <<>>
      /\ b.bytes = 0 /\ ~b.listening /\ b.overflow
  <2>1. b = [a EXCEPT !.overflow = TRUE]
    BY DEF overflow
  <2> HIDE DEF a, b
  <2> QED  BY <1>2, <1>3, <2>1 DEF EndpointRecord
<1> HIDE DEF a, b
<1>5. EndpointOK(a) /\ EndpointOK(b)
  BY <1>2, <1>3, <1>4, NothingAccounted DEF EndpointOK
<1> QED  BY <1>3, <1>4, <1>5 DEF a, b

LEMMA PushCases ==
  ASSUME NEW ep, EndpointOK(ep), ep.made, ~ep.stopped, NEW ev \in QueuedEvent, NEW ep1 \in push(ep, ev)
  PROVE  /\ EndpointOK(ep1) /\ ep1.made /\ ep1.listed = ep.listed /\ ep1.reported = ep.reported
         /\ \/ ep1.stopped /\ ep1.events = <<>>
            \/ ~ep1.stopped /\ ep1.events = Append(ep.events, ev) /\ ep1.listening = ep.listening
<1>1. CASE ep1 = overflow(ep)
  BY <1>1, ShutDown
<1>2. CASE ep1 # overflow(ep)
  <2>1. /\ ~(Len(ep.events) >= MaxEvents \/ Cost(ev) > MaxEventBytes - ep.bytes)
        /\ ep1 = [ep EXCEPT !.events = Append(@, ev), !.bytes = @ + Cost(ev)]
    BY <1>2 DEF push
  <2>2. ep \in EndpointRecord /\ Cost(ev) \in Nat
    BY CostIsNat DEF EndpointOK
  <2>3. ep.events \in Seq(QueuedEvent) /\ ep.bytes \in Nat /\ Len(ep.events) \in Nat
    BY <2>2 DEF EndpointRecord
  <2>4. Append(ep.events, ev) \in Seq(QueuedEvent) /\ ep.bytes + Cost(ev) \in Nat
    BY <2>2, <2>3
  <2>5. ep1 \in EndpointRecord
    BY <2>1, <2>2, <2>4 DEF EndpointRecord
  <2>6. /\ ep1.made /\ ep1.listed = ep.listed /\ ep1.listening = ep.listening /\ ep1.reported = ep.reported
        /\ ~ep1.stopped /\ ep1.overflow = ep.overflow
        /\ ep1.events = Append(ep.events, ev) /\ ep1.bytes = ep.bytes + Cost(ev)
    BY <2>1, <2>2 DEF EndpointRecord
  <2>7. Accounted(ep.events, ep.bytes) /\ Len(ep.events) < MaxEvents /\ Cost(ev) <= MaxEventBytes - ep.bytes
    BY <2>1, <2>2, <2>3, Constants DEF EndpointOK
  <2>8. Accounted(ep1.events, ep1.bytes)
    BY <2>3, <2>6, <2>7, AccountedAppend
  <2> QED  BY <2>5, <2>6, <2>8 DEF EndpointOK
<1> QED  BY <1>1, <1>2

\* A message is read from the poll group, or arrives there.
LEMMA InboxKeeps ==
  ASSUME NEW ep, EndpointOK(ep), ep.made, NEW box \in Seq(Message)
  PROVE  /\ EndpointOK([ep EXCEPT !.inbox = box])
         /\ [ep EXCEPT !.inbox = box].made
         /\ [ep EXCEPT !.inbox = box].listed = ep.listed
         /\ [ep EXCEPT !.inbox = box].listening = ep.listening
         /\ [ep EXCEPT !.inbox = box].reported = ep.reported
         /\ [ep EXCEPT !.inbox = box].stopped = ep.stopped
         /\ [ep EXCEPT !.inbox = box].events = ep.events
<1> DEFINE a == [ep EXCEPT !.inbox = box]
<1>1. ep \in EndpointRecord
  BY DEF EndpointOK
<1>2. /\ a \in EndpointRecord /\ a.made = ep.made /\ a.listed = ep.listed /\ a.listening = ep.listening
      /\ a.reported = ep.reported /\ a.stopped = ep.stopped /\ a.events = ep.events /\ a.bytes = ep.bytes
      /\ a.overflow = ep.overflow
  BY <1>1 DEF EndpointRecord
<1> HIDE DEF a
<1>3. EndpointOK(a)
  BY <1>2 DEF EndpointOK
<1> QED  BY <1>2, <1>3 DEF a
-----------------------------------------------------------------------------
(***************************************************************************)
(* Status changes.                                                         *)
(***************************************************************************)

LEMMA ChangeComes ==
  ASSUME NEW n \in Natives, NEW changes \in Seq(Change), NEW x \in Change, Once(n, changes),
         x # FirstChange(n) \/ ~Awaits(n, changes)
  PROVE  /\ Once(n, Append(changes, x))
         /\ Awaits(n, Append(changes, x)) <=> Awaits(n, changes) \/ x = FirstChange(n)
<1> DEFINE k == Len(changes)
           new == Append(changes, x)
<1>1. /\ k \in Nat /\ Len(new) = k + 1
      /\ \A i \in 1..(k + 1) : new[i] = IF i = k + 1 THEN x ELSE changes[i]
  BY Appended
<1> HIDE DEF new
<1>2. \A i \in 1..(k + 1) : (i = k + 1 /\ new[i] = x) \/ (i \in 1..k /\ new[i] = changes[i])
  BY <1>1
<1>3. \A i \in 1..k : i \in 1..(k + 1) /\ new[i] = changes[i]
  BY <1>1
<1>4. k + 1 \in 1..(k + 1) /\ new[k + 1] = x
  BY <1>1
<1>5. Once(n, new)
  BY <1>1, <1>2 DEF Once, Awaits
<1>6. Awaits(n, new) <=> Awaits(n, changes) \/ x = FirstChange(n)
  BY <1>1, <1>2, <1>3, <1>4 DEF Awaits
<1> QED  BY <1>5, <1>6 DEF new

LEMMA ChangeGoes ==
  ASSUME NEW n \in Natives, NEW changes \in Seq(Change), changes # <<>>, Once(n, changes)
  PROVE  /\ Once(n, Tail(changes))
         /\ Awaits(n, Tail(changes)) <=> Awaits(n, changes) /\ Head(changes) # FirstChange(n)
<1> DEFINE k == Len(changes)
           new == Tail(changes)
<1>1. /\ k \in Nat /\ k >= 1 /\ Len(new) = k - 1 /\ Head(changes) = changes[1]
      /\ \A i \in 1..(k - 1) : new[i] = changes[i + 1]
  BY Beheaded
<1> HIDE DEF new
<1>2. \A i \in 1..(k - 1) : i + 1 \in 1..k /\ i + 1 # 1 /\ new[i] = changes[i + 1]
  BY <1>1
<1>3. \A i \in 1..k : i = 1 \/ (i - 1 \in 1..(k - 1) /\ new[i - 1] = changes[i])
  BY <1>1
<1>4. Once(n, new)
  <2> SUFFICES ASSUME NEW i \in 1..(k - 1), NEW j \in 1..(k - 1),
                      new[i] = FirstChange(n), new[j] = FirstChange(n)
               PROVE  i = j
    BY <1>1 DEF Once
  <2>1. i + 1 = j + 1
    BY <1>2 DEF Once
  <2> QED  BY <1>1, <2>1
<1>5. Awaits(n, new) => Awaits(n, changes) /\ Head(changes) # FirstChange(n)
  <2> SUFFICES ASSUME NEW i \in 1..(k - 1), new[i] = FirstChange(n)
               PROVE  Awaits(n, changes) /\ changes[1] # FirstChange(n)
    BY <1>1 DEF Awaits
  <2>1. 1 \in 1..k
    BY <1>1
  <2> QED  BY <1>2, <2>1 DEF Awaits, Once
<1>6. Awaits(n, changes) /\ Head(changes) # FirstChange(n) => Awaits(n, new)
  BY <1>1, <1>3 DEF Awaits
<1> QED  BY <1>4, <1>5, <1>6 DEF new
-----------------------------------------------------------------------------
(***************************************************************************)
(* Native connections.                                                     *)
(***************************************************************************)

\* Closed, of a record.
Shut(c) == [c EXCEPT !.state = "closed", !.owner = 0, !.connected = FALSE]

LEMMA ShutFields ==
  ASSUME NEW c \in NativeRecord
  PROVE  /\ Shut(c) \in NativeRecord /\ Shut(c).state = "closed" /\ Shut(c).owner = 0 /\ ~Shut(c).connected
         /\ Shut(c).of = c.of /\ Shut(c).inbound = c.inbound
BY DEF NativeRecord, Shut

\* What there is to know of a connection in use.
LEMMA InUse ==
  ASSUME NEW n, NEW c, NEW ep, NEW said, NEW changes, NativeOK(n, c, ep, said, changes),
         c.state # "unused"
  PROVE  /\ c \in NativeRecord /\ c.of \in Ids /\ ep.made /\ c.owner \in {0, c.of} /\ 0 \notin Ids
         /\ Story(n, ep.events, said)
         /\ \A i \in 1..Len(said) : said[i] = "overflow" => ep.reported
         /\ c.owner # 0 => c.state \in Open /\ ~ep.stopped /\ NotEnded(n, ep.events, said)
         /\ c.owner # 0 /\ ~c.connected => Quiet(n, ep.events, said)
         /\ c.connected => Begun(n, ep.events, said) /\ c.owner # 0
         /\ c.state \in Open /\ c.owner = 0 => Awaits(n, changes)
         /\ c.inbound /\ Awaits(n, changes) => c.owner = 0 /\ (~ep.stopped => NotEnded(n, ep.events, said))
<1>1. Quiet(n, ep.events, said) => NotEnded(n, ep.events, said)
  BY DEF Quiet, NotEnded, Says, Alive
<1>2. c \in NativeRecord
  BY DEF NativeOK
<1> QED  BY <1>1, <1>2, Constants DEF NativeOK

\* Its endpoint changes in nothing that matters to it.
LEMMA EndpointAside ==
  ASSUME NEW n, NEW c, NEW ep, NEW ep1, NEW said, NEW changes, NativeOK(n, c, ep, said, changes),
         c.state # "unused" =>
           (ep.made => ep1.made) /\ ep1.stopped = ep.stopped /\ ep1.events = ep.events
           /\ (ep.reported => ep1.reported)
  PROVE  NativeOK(n, c, ep1, said, changes)
BY DEF NativeOK

\* Other status changes come and go.
LEMMA ChangesAside ==
  ASSUME NEW n, NEW c, NEW ep, NEW said, NEW old, NEW new, NativeOK(n, c, ep, said, old),
         Once(n, new), Awaits(n, new) <=> Awaits(n, old)
  PROVE  NativeOK(n, c, ep, said, new)
BY DEF NativeOK

\* Another peer's event is queued.
LEMMA OtherEvent ==
  ASSUME NEW n, NEW c, NEW ep, NEW ep1, NEW said, NEW changes, NativeOK(n, c, ep, said, changes),
         ep.events \in Seq(QueuedEvent), NEW ev \in QueuedEvent, ev.peer # n,
         ep1.made, ep1.stopped = ep.stopped, ep1.events = Append(ep.events, ev), ep1.reported = ep.reported
  PROVE  NativeOK(n, c, ep1, said, changes)
<1>1. CASE c.state = "unused"
  BY <1>1 DEF NativeOK
<1>2. CASE c.state # "unused"
  <2>1. Story(n, ep1.events, said)
    BY <1>2, StoryAppend DEF NativeOK
  <2>2. /\ Quiet(n, ep.events, said) => Quiet(n, ep1.events, said)
        /\ Begun(n, ep.events, said) => Begun(n, ep1.events, said)
        /\ NotEnded(n, ep.events, said) => NotEnded(n, ep1.events, said)
    BY MoodAppend
  <2> QED  BY <1>2, <2>1, <2>2 DEF NativeOK
<1> QED  BY <1>1, <1>2

\* The endpoint is shut down and its queue with it.
LEMMA ShutWithEndpoint ==
  ASSUME NEW n, NEW c, NEW c1, NEW ep, NEW ep1, NEW said, NEW changes, NEW new,
         NativeOK(n, c, ep, said, changes),
         c.state # "unused", ep1.made, ep1.stopped, ep1.events = <<>>, ep.reported => ep1.reported,
         c1 = Shut(c) \/ (c1 = c /\ c.owner = 0 /\ new = changes), Once(n, new)
  PROVE  NativeOK(n, c1, ep1, said, new)
<1>1. Story(n, ep1.events, said)
  BY StoryWiped, InUse
<1>2. CASE c1 = Shut(c)
  BY <1>1, <1>2, InUse, ShutFields DEF NativeOK, Open
<1>3. CASE c1 = c /\ c.owner = 0 /\ new = changes
  BY <1>1, <1>3, InUse DEF NativeOK
<1> QED  BY <1>2, <1>3

\* The connection is dropped and its end queued.
LEMMA Dropped ==
  ASSUME NEW n \in Natives, NEW c, NEW ep, NEW ep1, NEW said, NEW changes, NEW new,
         NativeOK(n, c, ep, said, changes),
         c.state # "unused", ep.events \in Seq(QueuedEvent), NotEnded(n, ep.events, said),
         Once(n, new), ~(c.inbound /\ Awaits(n, new)),
         ep1.made, ep1.events = Append(ep.events, Event("disconnected", n, 0)), ep1.reported = ep.reported
  PROVE  NativeOK(n, Shut(c), ep1, said, new)
<1> DEFINE ev == Event("disconnected", n, 0)
<1>1. ev \in QueuedEvent /\ ev.peer = n /\ ev.kind = "disconnected"
  BY DEF Event, QueuedEvent
<1> HIDE DEF ev
<1>2. Story(n, Append(ep.events, ev), said)
  BY <1>1, InUse, StoryAppend
<1>3. Story(n, ep1.events, said)
  BY <1>2 DEF ev
<1> QED  BY <1>3, InUse, ShutFields DEF NativeOK, Open

\* The connection is closed without an event.
LEMMA ClosedQuietly ==
  ASSUME NEW n \in Natives, NEW c, NEW ep, NEW said, NEW changes, NEW new,
         NativeOK(n, c, ep, said, changes),
         c.state # "unused", Once(n, new), ~(c.inbound /\ Awaits(n, new)) \/ ep.stopped
  PROVE  NativeOK(n, Shut(c), ep, said, new)
BY InUse, ShutFields DEF NativeOK, Open
-----------------------------------------------------------------------------
(***************************************************************************)
(* Steps in general.                                                       *)
(***************************************************************************)

LEMMA InvParts ==
  ASSUME Inv
  PROVE  /\ Functions /\ PollersOK /\ RestMade /\ initialized = (Endpoints # {})
         /\ \A e \in Ids : EndpointOK(endpoint[e]) /\ AtHome(e) /\ PeersOK(e)
         /\ \A n \in Natives : NativeOK(n, native[n], endpoint[native[n].of], seen[n], callbacks)
BY DEF Inv

\* Endpoints stay made, and polls begin to read only from listed ones.
RestsKept == \A t \in Pollers : poller'[t].rest \subseteq poller[t].rest \cup Endpoints

LEMMA RestKept ==
  ASSUME Inv, RestsKept, \A e \in Ids : endpoint[e].made => endpoint'[e].made PROVE RestMade'
<1>1. \A t \in Pollers : poller[t].rest \subseteq Ids
  <2> TAKE t \in Pollers
  <2>1. poller[t] \in PollerRecord
    BY InvParts DEF PollersOK
  <2> QED  BY <2>1 DEF PollerRecord
<1>2. \A e \in Endpoints : e \in Ids /\ endpoint[e].made
  BY InvParts DEF Endpoints, EndpointOK
<1> QED  BY <1>1, <1>2, InvParts DEF RestMade, RestsKept

\* A connection and its endpoint.
LEMMA Homes ==
  ASSUME Inv, NEW n \in Natives
  PROVE  /\ native[n].state = "unused" => native[n] = NoNative
         /\ native[n].state = "unused" <=> native[n].of \notin Ids
         /\ native[n].state = "unused" <=> native[n].of = 0
         /\ native[n].owner # 0 => native[n].owner = native[n].of
         /\ \A e \in Ids : native[n].owner = e =>
              native[n].of = e /\ ~endpoint[e].stopped /\ native[n].state \in Open
<1>1. NativeOK(n, native[n], endpoint[native[n].of], seen[n], callbacks)
  BY InvParts
<1>2. NoNative.of = 0 /\ NoNative.owner = 0
  BY DEF NoNative
<1>3. CASE native[n].state = "unused"
  <2>1. native[n] = NoNative
    BY <1>1, <1>3 DEF NativeOK
  <2> QED  BY <1>2, <1>3, <2>1, Constants
<1>4. CASE native[n].state # "unused"
  BY <1>1, <1>4, InUse
<1> QED  BY <1>3, <1>4

\* Fewer peers, or one more within the limit.
LEMMA PeersKept ==
  ASSUME NEW e \in Ids, PeersOK(e),
         Peers(e)' \subseteq Peers(e)
         \/ \E n \in Natives : Peers(e)' \subseteq Peers(e) \cup {n} /\ Cardinality(Peers(e)) < MaxPeers
  PROVE  PeersOK(e)'
<1>1. IsFiniteSet(Peers(e)) /\ Cardinality(Peers(e)) \in Nat /\ Cardinality(Peers(e)) <= MaxPeers
  BY FS_CardinalityType DEF PeersOK
<1>2. CASE Peers(e)' \subseteq Peers(e)
  <2>1. IsFiniteSet(Peers(e)') /\ Cardinality(Peers(e)') <= Cardinality(Peers(e)) /\ Cardinality(Peers(e)') \in Nat
    BY <1>1, <1>2, FS_Subset, FS_CardinalityType
  <2> QED  BY <1>1, <2>1, Constants DEF PeersOK
<1>3. ASSUME NEW n \in Natives, Peers(e)' \subseteq Peers(e) \cup {n}, Cardinality(Peers(e)) < MaxPeers
      PROVE  PeersOK(e)'
  <2>1. IsFiniteSet(Peers(e) \cup {n}) /\ Cardinality(Peers(e) \cup {n}) <= Cardinality(Peers(e)) + 1
        /\ Cardinality(Peers(e) \cup {n}) \in Nat
    <3>1. /\ IsFiniteSet(Peers(e) \cup {n})
          /\ Cardinality(Peers(e) \cup {n}) =
               IF n \in Peers(e) THEN Cardinality(Peers(e)) ELSE Cardinality(Peers(e)) + 1
      BY <1>1, FS_AddElement
    <3> QED  BY <1>1, <3>1
  <2>2. IsFiniteSet(Peers(e)') /\ Cardinality(Peers(e)') <= Cardinality(Peers(e) \cup {n})
        /\ Cardinality(Peers(e)') \in Nat
    BY <1>3, <2>1, FS_Subset, FS_CardinalityType
  <2> QED  BY <1>1, <1>3, <2>1, <2>2, Constants DEF PeersOK
<1> QED  BY <1>2, <1>3

\* Endpoint e becomes ep1, stopped, as before, or with an event of n queued.
EndpointMoves(e, n, ep1) ==
  /\ EndpointOK(ep1) /\ ep1.made
  /\ ep1.listed = endpoint[e].listed /\ ep1.reported = endpoint[e].reported
  /\ \/ ep1.stopped /\ ep1.events = <<>>
     \/ ep1.stopped = endpoint[e].stopped /\ ep1.events = endpoint[e].events
     \/ /\ ep1.stopped = endpoint[e].stopped
        /\ \E ev \in QueuedEvent : ev.peer = n /\ ep1.events = Append(endpoint[e].events, ev)

\* Its connection n becomes c1; e may get a peer within the limit.
ConnectionMoves(e, n, c1) ==
  /\ native'[n] = c1 /\ c1.of = e /\ native[n].of \in {0, e}
  /\ c1.owner \in {0, native[n].owner} \/ (c1.owner = e /\ Cardinality(Peers(e)) < MaxPeers)

\* Of the others, those with peers at e are closed when it stops.
OthersMove(e, n, ep1) ==
  /\ native' = [m \in Natives |-> native'[m]]
  /\ \A m \in Natives : m # n =>
       /\ native'[m] = native[m] \/ (ep1.stopped /\ native[m].owner = e /\ native'[m] = Closed(m))
       /\ ep1.stopped => native'[m].owner # e

\* The status changes to come after the step, for every connection but n.
OtherChanges(n) ==
  /\ callbacks' \in Seq(Change)
  /\ \A m \in Natives : /\ Once(m, callbacks')
                        /\ m # n => (Awaits(m, callbacks') <=> Awaits(m, callbacks))

LEMMA Step ==
  ASSUME Inv, NEW e \in Ids, NEW n \in Natives, NEW ep1, NEW c1,
         endpoint' = [endpoint EXCEPT ![e] = ep1], EndpointMoves(e, n, ep1), ConnectionMoves(e, n, c1),
         OthersMove(e, n, ep1), OtherChanges(n), NativeOK(n, c1, ep1, seen[n], callbacks'),
         UNCHANGED <<initialized, poller, messages, seen>>
  PROVE  Inv'
<1> USE DEF EndpointMoves, ConnectionMoves, OthersMove, OtherChanges
<1>0. messages' \in 0..MaxMessages
  BY InvParts DEF Functions
<1>1. \A d \in Ids : endpoint'[d] = IF d = e THEN ep1 ELSE endpoint[d]
  BY InvParts DEF Functions
<1>2. Functions'
  <2>1. endpoint' = [d \in Ids |-> endpoint'[d]] /\ DOMAIN endpoint' = Ids
    BY InvParts DEF Functions
  <2>2. DOMAIN native' = Natives
    OBVIOUS
  <2> QED  BY <1>0, <2>1, <2>2, InvParts DEF Functions
<1>3. PollersOK'
  BY InvParts DEF PollersOK
<1>4. Endpoints' = Endpoints
  BY <1>1 DEF Endpoints
<1>5. \A m \in Natives : m # n => native'[m].of = native[m].of /\ native'[m].owner \in {0, native[m].owner}
  <2> SUFFICES ASSUME NEW m \in Natives, m # n, native'[m] = Closed(m)
               PROVE  native'[m].of = native[m].of /\ native'[m].owner = 0
    OBVIOUS
  <2>1. native[m] \in NativeRecord /\ native'[m] = Shut(native[m])
    BY InvParts DEF NativeOK, Closed, Shut
  <2> QED  BY <2>1, ShutFields
<1>6. \A d \in Ids : EndpointOK(endpoint'[d])
  BY <1>1, InvParts
<1>7. ASSUME NEW d \in Ids PROVE AtHome(d)'
  <2>1. endpoint[d].events \in Seq(QueuedEvent) /\ AtHome(d)
    BY InvParts DEF EndpointOK, EndpointRecord
  <2>2. ASSUME NEW i \in 1..Len(endpoint[d].events)
        PROVE  native'[endpoint[d].events[i].peer].of = d
    <3>1. endpoint[d].events[i].peer \in Natives /\ native[endpoint[d].events[i].peer].of = d
      <4>1. endpoint[d].events[i] \in QueuedEvent
        BY <2>1
      <4> QED  BY <2>1, <4>1 DEF AtHome, QueuedEvent
    <3>2. d # 0
      BY Constants
    <3> QED  BY <1>5, <3>1, <3>2
  <2>3. CASE d # e
    BY <1>1, <2>2, <2>3 DEF AtHome
  <2>4. CASE d = e /\ ep1.events = <<>>
    BY <1>1, <2>4 DEF AtHome
  <2>5. CASE d = e /\ ep1.events = endpoint[e].events
    BY <1>1, <2>2, <2>5 DEF AtHome
  <2>6. CASE d = e /\ \E ev \in QueuedEvent : ev.peer = n /\ ep1.events = Append(endpoint[e].events, ev)
    <3>1. PICK ev \in QueuedEvent : ev.peer = n /\ ep1.events = Append(endpoint[e].events, ev)
      BY <2>6
    <3>2. /\ Len(endpoint[e].events) \in Nat /\ Len(ep1.events) = Len(endpoint[e].events) + 1
          /\ \A i \in 1..(Len(endpoint[e].events) + 1) :
               ep1.events[i] = IF i = Len(endpoint[e].events) + 1 THEN ev ELSE endpoint[e].events[i]
      BY <2>1, <2>6, <3>1, Appended
    <3>3. \A i \in 1..(Len(endpoint[e].events) + 1) : native'[ep1.events[i].peer].of = e
      <4> TAKE i \in 1..(Len(endpoint[e].events) + 1)
      <4>1. CASE i = Len(endpoint[e].events) + 1
        BY <3>1, <3>2, <4>1
      <4>2. CASE i # Len(endpoint[e].events) + 1
        <5>1. i \in 1..Len(endpoint[e].events) /\ ep1.events[i] = endpoint[e].events[i]
          BY <3>2, <4>2
        <5> QED  BY <2>2, <2>6, <5>1
      <4> QED  BY <4>1, <4>2
    <3>4. endpoint'[d] = ep1
      BY <1>1, <2>6
    <3>5. \A i \in 1..Len(ep1.events) : native'[ep1.events[i].peer].of = d
      BY <2>6, <3>2, <3>3
    <3> QED  BY <3>4, <3>5 DEF AtHome
  <2> QED  BY <2>3, <2>4, <2>5, <2>6
<1>8. ASSUME NEW d \in Ids PROVE PeersOK(d)'
  <2>1. Peers(d) = {m \in Natives : native[m].owner = d} /\ Peers(d)' = {m \in Natives : native'[m].owner = d}
        /\ d # 0 /\ PeersOK(d)
    BY Constants, InvParts DEF Peers
  <2>2. CASE c1.owner \in {0, native[n].owner}
    <3>1. Peers(d)' \subseteq Peers(d)
      BY <1>5, <2>1, <2>2
    <3> QED  BY <2>1, <3>1, PeersKept
  <2>3. CASE c1.owner = e /\ Cardinality(Peers(e)) < MaxPeers
    <3>1. IF d = e THEN Peers(d)' \subseteq Peers(d) \cup {n} ELSE Peers(d)' \subseteq Peers(d)
      BY <1>5, <2>1, <2>3
    <3> QED  BY <2>1, <2>3, <3>1, PeersKept
  <2> QED  BY <2>2, <2>3
<1>9. ASSUME NEW m \in Natives
      PROVE  NativeOK(m, native'[m], endpoint'[native'[m].of], seen'[m], callbacks')
  <2>1. CASE m = n
    BY <1>1, <2>1
  <2>2. CASE m # n /\ native[m].of # e
    <3>1. native'[m] = native[m]
      BY <2>2, Homes
    <3>2. NativeOK(m, native[m], endpoint[native[m].of], seen[m], callbacks')
      BY <2>2, InvParts, ChangesAside
    <3>3. native[m].state # "unused" => endpoint'[native[m].of] = endpoint[native[m].of]
      BY <1>1, <2>2, Homes
    <3>4. NativeOK(m, native[m], endpoint'[native[m].of], seen[m], callbacks')
      BY <3>2, <3>3, EndpointAside
    <3> QED  BY <3>1, <3>4
  <2>3. CASE m # n /\ native[m].of = e
    <3>1. native[m].state # "unused"
      BY <2>3, Homes
    <3>2. NativeOK(m, native[m], endpoint[e], seen[m], callbacks')
      BY <2>3, InvParts, ChangesAside
    <3>3. endpoint'[native'[m].of] = ep1
      BY <1>1, <1>5, <2>3
    <3>4. CASE ep1.stopped /\ ep1.events = <<>>
      <4>1. native'[m] = Shut(native[m]) \/ (native'[m] = native[m] /\ native[m].owner = 0)
        BY <2>3, <3>4, Homes DEF Closed, Shut
      <4>2. NativeOK(m, native'[m], ep1, seen[m], callbacks')
        BY <2>3, <3>1, <3>2, <3>4, <4>1, ShutWithEndpoint
      <4> QED  BY <3>3, <4>2
    <3>5. CASE ~ep1.stopped \/ ep1.events # <<>>
      <4>1. native'[m] = native[m] /\ ep1.stopped = endpoint[e].stopped
        BY <2>3, <3>5, Homes
      <4>2. NativeOK(m, native[m], ep1, seen[m], callbacks')
        <5>1. CASE ep1.events = endpoint[e].events
          BY <3>2, <4>1, <5>1, EndpointAside
        <5>2. CASE ep1.events # endpoint[e].events
          <6>1. PICK ev \in QueuedEvent : ev.peer = n /\ ep1.events = Append(endpoint[e].events, ev)
            BY <3>5, <5>2
          <6>2. endpoint[e].events \in Seq(QueuedEvent)
            BY InvParts DEF EndpointOK, EndpointRecord
          <6> QED  BY <2>3, <3>2, <4>1, <6>1, <6>2, OtherEvent
        <5> QED  BY <5>1, <5>2
      <4> QED  BY <3>3, <4>1, <4>2
    <3> QED  BY <3>4, <3>5
  <2> QED  BY <2>1, <2>2, <2>3
<1>10. initialized' = (Endpoints' # {})
  BY <1>4, InvParts
<1>11. RestMade'
  BY <1>1, RestKept DEF RestsKept
<1> QED  BY <1>2, <1>3, <1>6, <1>7, <1>8, <1>9, <1>10, <1>11 DEF Inv

\* Only polls move.
LEMMA PollerStep ==
  ASSUME Inv, PollersOK', RestsKept, UNCHANGED <<initialized, endpoint, native, callbacks, messages, seen>>
  PROVE  Inv'
<1>1. Functions' /\ Endpoints' = Endpoints
  BY InvParts DEF Functions, Endpoints
<1>2. \A e \in Ids : AtHome(e)' /\ PeersOK(e)'
  BY InvParts DEF AtHome, PeersOK, Peers
<1>3. RestMade'
  BY RestKept
<1> QED  BY <1>1, <1>2, <1>3, InvParts DEF Inv

\* Only endpoint e, and what was said of its connections, changes.
LEMMA EndpointStep ==
  ASSUME Inv, NEW e \in Ids, NEW ep1, endpoint' = [endpoint EXCEPT ![e] = ep1], EndpointOK(ep1),
         \/ ep1.events \in {<<>>, endpoint[e].events}
         \/ endpoint[e].events # <<>> /\ ep1.events = Tail(endpoint[e].events),
         endpoint[e].made => ep1.made, PollersOK', RestsKept,
         UNCHANGED <<native, callbacks>>, messages' \in 0..MaxMessages,
         initialized' \in BOOLEAN, initialized' = (Endpoints' # {}),
         seen' = [m \in Natives |-> seen'[m]],
         \A m \in Natives : /\ native[m].of = e => NativeOK(m, native[m], ep1, seen'[m], callbacks)
                            /\ native[m].of # e => seen'[m] = seen[m]
  PROVE  Inv'
<1>1. \A d \in Ids : endpoint'[d] = IF d = e THEN ep1 ELSE endpoint[d]
  BY InvParts DEF Functions
<1>2. Functions'
  <2>1. endpoint' = [d \in Ids |-> endpoint'[d]] /\ DOMAIN endpoint' = Ids /\ DOMAIN seen' = Natives
    BY InvParts DEF Functions
  <2> QED  BY <2>1, InvParts DEF Functions
<1>3. \A d \in Ids : EndpointOK(endpoint'[d]) /\ PeersOK(d)'
  BY <1>1, InvParts DEF PeersOK, Peers
<1>4. ASSUME NEW d \in Ids PROVE AtHome(d)'
  <2>1. AtHome(d) /\ endpoint[d].events \in Seq(QueuedEvent)
    BY InvParts DEF EndpointOK, EndpointRecord
  <2>2. CASE d # e \/ ep1.events = endpoint[e].events
    <3>1. endpoint'[d].events = endpoint[d].events
      BY <1>1, <2>2
    <3> QED  BY <2>1, <3>1 DEF AtHome
  <2>3. CASE d = e /\ ep1.events = <<>>
    BY <1>1, <2>3 DEF AtHome
  <2>4. CASE d = e /\ endpoint[e].events # <<>> /\ ep1.events = Tail(endpoint[e].events)
    <3>1. /\ Len(endpoint[d].events) \in Nat /\ Len(ep1.events) = Len(endpoint[d].events) - 1
          /\ \A i \in 1..(Len(endpoint[d].events) - 1) : ep1.events[i] = endpoint[d].events[i + 1]
      BY <2>1, <2>4, Beheaded
    <3>2. \A i \in 1..Len(ep1.events) : native[ep1.events[i].peer].of = d
      <4> TAKE i \in 1..Len(ep1.events)
      <4>1. i + 1 \in 1..Len(endpoint[d].events) /\ ep1.events[i] = endpoint[d].events[i + 1]
        BY <3>1
      <4> QED  BY <2>1, <4>1 DEF AtHome
    <3>3. endpoint'[d] = ep1
      BY <1>1, <2>4
    <3> QED  BY <3>2, <3>3 DEF AtHome
  <2> QED  BY <2>2, <2>3, <2>4
<1>5. ASSUME NEW m \in Natives
      PROVE  NativeOK(m, native'[m], endpoint'[native'[m].of], seen'[m], callbacks')
  <2>1. CASE native[m].of = e
    BY <1>1, <2>1
  <2>2. CASE native[m].of # e
    <3>1. native[m].state # "unused" => endpoint'[native[m].of] = endpoint[native[m].of]
      BY <1>1, <2>2, Homes
    <3>2. NativeOK(m, native[m], endpoint[native[m].of], seen[m], callbacks)
      BY InvParts
    <3>3. NativeOK(m, native[m], endpoint'[native[m].of], seen[m], callbacks)
      BY <3>1, <3>2, EndpointAside
    <3> QED  BY <2>2, <3>3
  <2> QED  BY <2>1, <2>2
<1>6. RestMade'
  BY <1>1, RestKept
<1> QED  BY <1>2, <1>3, <1>4, <1>5, <1>6 DEF Inv

\* Endpoint e overflows, and its peers go.
LEMMA OverflowStep ==
  ASSUME Inv, NEW e \in Ids, NEW ep1, endpoint' = [endpoint EXCEPT ![e] = ep1], EndpointOK(ep1), ep1.made,
         ep1.listed = endpoint[e].listed, ep1.reported = endpoint[e].reported, ep1.stopped, ep1.events = <<>>,
         native' = [m \in Natives |-> IF native[m].owner = e THEN Closed(m) ELSE native[m]],
         UNCHANGED <<initialized, callbacks, poller, messages, seen>>
  PROVE  Inv'
<1>1. ASSUME NEW m \in Natives, native[m].owner = e
      PROVE  /\ native'[m] = Shut(native[m]) /\ native'[m].owner = 0 /\ native'[m].of = native[m].of
             /\ native[m].of = e
  <2>1. native[m] \in NativeRecord /\ native'[m] = Shut(native[m])
    BY <1>1, InvParts DEF NativeOK, Closed, Shut
  <2> QED  BY <1>1, <2>1, ShutFields, Homes
<1>2. \A m \in Natives : native[m].owner # e => native'[m] = native[m]
  OBVIOUS
<1>3. \A m \in Natives : native'[m].owner # e /\ native'[m].of = native[m].of
  BY <1>1, <1>2, Constants
<1>4. \A d \in Ids : endpoint'[d] = IF d = e THEN ep1 ELSE endpoint[d]
  BY InvParts DEF Functions
<1>5. /\ PollersOK' /\ messages' \in 0..MaxMessages /\ initialized' \in BOOLEAN /\ callbacks' \in Seq(Change)
      /\ RestsKept
  BY InvParts DEF PollersOK, Functions, RestsKept
<1>6. \A m \in Natives : Once(m, callbacks)
  BY InvParts DEF NativeOK
<1>7. CASE \E n \in Natives : native[n].of = e
  <2>1. PICK n \in Natives : native[n].of = e
    BY <1>7
  <2>2. native[n].state # "unused" /\ NativeOK(n, native[n], endpoint[e], seen[n], callbacks)
    BY <2>1, Homes, InvParts
  <2>3. native'[n] = Shut(native[n]) \/ (native'[n] = native[n] /\ native[n].owner = 0)
    BY <1>1, <1>2, <2>1, Homes
  <2>4. NativeOK(n, native'[n], ep1, seen[n], callbacks')
    BY <1>6, <2>2, <2>3, ShutWithEndpoint
  <2>5. native'[n].owner \in {0, native[n].owner} /\ native'[n].of = e
    BY <1>1, <1>2, <1>3, <2>1
  <2>6. OthersMove(e, n, ep1)
    BY <1>1, <1>2, <1>3 DEF OthersMove
  <2>7. OtherChanges(n)
    BY <1>5, <1>6 DEF OtherChanges
  <2>8. EndpointMoves(e, n, ep1)
    BY DEF EndpointMoves
  <2>9. PICK c : c = native'[n]
    OBVIOUS
  <2>10. ConnectionMoves(e, n, c)
    BY <2>1, <2>5, <2>9 DEF ConnectionMoves
  <2> QED  BY <2>4, <2>6, <2>7, <2>8, <2>9, <2>10, Step
<1>8. CASE \A n \in Natives : native[n].of # e
  <2>1. \A m \in Natives : native'[m] = native[m]
    BY <1>1, <1>2, <1>8
  <2>2. native' = native
    BY <2>1, InvParts DEF Functions
  <2>3. Endpoints' = Endpoints /\ seen' = [m \in Natives |-> seen'[m]]
    BY <1>4, InvParts DEF Endpoints, Functions
  <2> QED  BY <1>5, <1>8, <2>2, <2>3, InvParts, EndpointStep
<1> QED  BY <1>7, <1>8
-----------------------------------------------------------------------------
(***************************************************************************)
(* Events are queued.                                                      *)
(***************************************************************************)

\* What an endpoint in use looks like to the steps below: endpoint[e], or what
\* is left of it when a message was read.
Resembles(ep, e) ==
  /\ EndpointOK(ep) /\ ep.made /\ ~ep.stopped
  /\ ep.events = endpoint[e].events /\ ep.listed = endpoint[e].listed
  /\ ep.reported = endpoint[e].reported /\ ep.stopped = endpoint[e].stopped

\* The peers of e go when it stops; otherwise connection n becomes c1.
PushMoves(e, n, ep1, c1) ==
  /\ endpoint' = [endpoint EXCEPT ![e] = ep1]
  /\ native' = [m \in Natives |-> native'[m]]
  /\ native'[n] = IF ep1.stopped /\ native[n].owner = e THEN Closed(n) ELSE c1
  /\ \A m \in Natives : m # n =>
       native'[m] = IF ep1.stopped /\ native[m].owner = e THEN Closed(m) ELSE native[m]
  /\ c1.of = e /\ c1.owner \in {0, native[n].owner}
  /\ ep1.stopped /\ native[n].owner # e => c1 = Closed(n)

\* An event of connection n is pushed.
LEMMA PushStep ==
  ASSUME Inv, NEW e \in Ids, NEW n \in Natives, native[n].of = e, NEW ep, Resembles(ep, e),
         NEW ev \in QueuedEvent, ev.peer = n, NEW ep1 \in push(ep, ev), NEW c1,
         PushMoves(e, n, ep1, c1), OtherChanges(n),
         ~ep1.stopped /\ ep1.events = Append(endpoint[e].events, ev) =>
           NativeOK(n, c1, ep1, seen[n], callbacks'),
         UNCHANGED <<initialized, poller, messages, seen>>
  PROVE  Inv'
<1> USE DEF PushMoves
<1>1. /\ EndpointOK(ep1) /\ ep1.made /\ ep1.listed = endpoint[e].listed
      /\ ep1.reported = endpoint[e].reported
      /\ \/ ep1.stopped /\ ep1.events = <<>>
         \/ ~ep1.stopped /\ ep1.events = Append(endpoint[e].events, ev)
  BY PushCases DEF Resembles
<1>2. native[n].state # "unused" /\ NativeOK(n, native[n], endpoint[e], seen[n], callbacks)
  BY Homes, InvParts
<1>3. \A m \in Natives : /\ native[m] \in NativeRecord /\ Closed(m) = Shut(native[m])
                         /\ Closed(m).owner = 0 /\ Closed(m).of = native[m].of
  <2> TAKE m \in Natives
  <2>1. native[m] \in NativeRecord /\ Closed(m) = Shut(native[m])
    BY InvParts DEF NativeOK, Closed, Shut
  <2> QED  BY <2>1, ShutFields
<1>4. NativeOK(n, native'[n], ep1, seen[n], callbacks') /\ native'[n].of = e
      /\ native'[n].owner \in {0, native[n].owner}
  <2>1. CASE ep1.stopped /\ ep1.events = <<>>
    <3>1. native'[n] = Shut(native[n])
      BY <1>3, <2>1
    <3>2. NativeOK(n, Shut(native[n]), ep1, seen[n], callbacks')
      BY <1>1, <1>2, <2>1, ShutWithEndpoint DEF OtherChanges
    <3> QED  BY <1>3, <3>1, <3>2
  <2>2. CASE ~ep1.stopped /\ ep1.events = Append(endpoint[e].events, ev)
    BY <2>2
  <2> QED  BY <1>1, <2>1, <2>2
<1>5. OthersMove(e, n, ep1)
  BY <1>3, Constants DEF OthersMove
<1>6. EndpointMoves(e, n, ep1)
  <2>1. ep1 \in EndpointRecord /\ endpoint[e] \in EndpointRecord /\ ~endpoint[e].stopped
    BY <1>1, InvParts DEF EndpointOK, Resembles
  <2>2. ep1.stopped \in BOOLEAN /\ endpoint[e].stopped \in BOOLEAN
    BY <2>1 DEF EndpointRecord
  <2> QED  BY <1>1, <2>1, <2>2 DEF EndpointMoves
<1>7. PICK c : c = native'[n]
  OBVIOUS
<1>8. ConnectionMoves(e, n, c)
  BY <1>4, <1>7 DEF ConnectionMoves
<1> QED  BY <1>4, <1>5, <1>6, <1>7, <1>8, Step

\* drop(): n goes and its end is queued, or everything is.
LEMMA DropStep ==
  ASSUME Inv, NEW e \in Ids, NEW n \in Natives, native[n].of = e, NEW ep, Resembles(ep, e), drop(e, ep, n),
         NotEnded(n, endpoint[e].events, seen[n]), ~(native[n].inbound /\ Awaits(n, callbacks')),
         OtherChanges(n), UNCHANGED <<initialized, poller, messages, seen>>
  PROVE  Inv'
<1> DEFINE ev == Event("disconnected", n, 0)
<1>1. ev \in QueuedEvent /\ ev.peer = n /\ ev.kind = "disconnected"
  BY DEF Event, QueuedEvent
<1>2. PICK ep1 \in push(ep, ev) :
        /\ endpoint' = [endpoint EXCEPT ![e] = ep1]
        /\ native' = [m \in Natives |-> IF m \in {n} \/ (ep1.stopped /\ native[m].owner = e)
                                        THEN Closed(m) ELSE native[m]]
  BY DEF drop, Becomes
<1>3. /\ native' = [m \in Natives |-> native'[m]] /\ native'[n] = Closed(n)
      /\ \A m \in Natives : m # n =>
           native'[m] = IF ep1.stopped /\ native[m].owner = e THEN Closed(m) ELSE native[m]
  BY <1>2
<1>4. native[n].state # "unused" /\ NativeOK(n, native[n], endpoint[e], seen[n], callbacks)
  BY Homes, InvParts
<1>5. native[n] \in NativeRecord /\ Closed(n) = Shut(native[n])
  BY <1>4 DEF NativeOK, Closed, Shut
<1>6. Closed(n).owner = 0 /\ Closed(n).of = e
  BY <1>5, ShutFields
<1>7. EndpointOK(ep1) /\ ep1.made /\ ep1.reported = endpoint[e].reported
  BY <1>1, PushCases DEF Resembles
<1>8. endpoint[e].events \in Seq(QueuedEvent)
  BY InvParts DEF EndpointOK, EndpointRecord
<1>9. ~ep1.stopped /\ ep1.events = Append(endpoint[e].events, ev) =>
        NativeOK(n, Closed(n), ep1, seen[n], callbacks')
  BY <1>4, <1>5, <1>7, <1>8, Dropped DEF OtherChanges
<1>10. PICK c1 : c1 = Closed(n)
  OBVIOUS
<1>11. PushMoves(e, n, ep1, c1)
  BY <1>2, <1>3, <1>6, <1>10 DEF PushMoves
<1>12. PICK x : x = ev
  OBVIOUS
<1>13. x \in QueuedEvent /\ x.peer = n /\ ep1 \in push(ep, x)
       /\ (~ep1.stopped /\ ep1.events = Append(endpoint[e].events, x) =>
             NativeOK(n, c1, ep1, seen[n], callbacks'))
  BY <1>1, <1>2, <1>9, <1>10, <1>12
<1> HIDE DEF ev
<1> QED  BY <1>11, <1>13, PushStep
-----------------------------------------------------------------------------
(***************************************************************************)
(* The actions, one by one.                                                *)
(***************************************************************************)

LEMMA CreateKeeps ==
  ASSUME Inv, NEW e \in Ids, create(e) PROVE Inv'
<1>1. PICK ep1 : ep1 = [NoEndpoint EXCEPT !.made = TRUE, !.listed = TRUE]
  OBVIOUS
<1>2. endpoint' = [endpoint EXCEPT ![e] = ep1] /\ initialized' = TRUE /\ ~endpoint[e].made
  BY <1>1 DEF create
<1>3. UNCHANGED <<native, callbacks, poller, messages, seen>>
  BY DEF create
<1>4. EndpointOK(ep1) /\ ep1.events = <<>> /\ ep1.listed
  <2>1. NoEndpoint \in EndpointRecord /\ Accounted(NoEndpoint.events, NoEndpoint.bytes)
    BY NothingYet DEF EndpointOK
  <2>2. ep1 \in EndpointRecord
    BY <1>1, <2>1 DEF EndpointRecord
  <2>3. ep1.events = NoEndpoint.events /\ ep1.bytes = NoEndpoint.bytes /\ ep1.made /\ ep1.listed
        /\ ~ep1.reported /\ ~ep1.overflow /\ ~ep1.stopped /\ ep1.events = <<>>
    BY <1>1 DEF NoEndpoint
  <2> QED  BY <2>1, <2>2, <2>3 DEF EndpointOK
<1>5. \A m \in Natives : native[m].of # e
  <2> SUFFICES ASSUME NEW m \in Natives, native[m].of = e PROVE FALSE
    OBVIOUS
  <2>1. native[m].state # "unused" /\ NativeOK(m, native[m], endpoint[e], seen[m], callbacks)
    BY Homes, InvParts
  <2> QED  BY <1>2, <2>1, InUse
<1>6. PollersOK' /\ RestsKept /\ messages' \in 0..MaxMessages /\ seen' = [m \in Natives |-> seen'[m]]
  BY <1>3, InvParts DEF PollersOK, Functions, RestsKept
<1>7. initialized' \in BOOLEAN /\ initialized' = (Endpoints' # {})
  <2>1. endpoint'[e] = ep1
    BY <1>2, InvParts DEF Functions
  <2> QED  BY <1>2, <1>4, <2>1 DEF Endpoints
<1> QED  BY <1>2, <1>3, <1>4, <1>5, <1>6, <1>7, EndpointStep

\* Endpoint e changes in nothing that its connections or its queue depend on.
LEMMA AsideStep ==
  ASSUME Inv, NEW e \in Ids, NEW ep1, endpoint' = [endpoint EXCEPT ![e] = ep1], EndpointOK(ep1), ep1.made,
         ep1.listed = endpoint[e].listed, ep1.stopped = endpoint[e].stopped,
         ep1.events = endpoint[e].events, ep1.reported = endpoint[e].reported,
         messages' \in 0..MaxMessages, UNCHANGED <<initialized, native, callbacks, poller, seen>>
  PROVE  Inv'
<1>1. \A m \in Natives : native[m].of = e => NativeOK(m, native[m], ep1, seen[m], callbacks)
  BY InvParts, EndpointAside
<1>2. PollersOK' /\ RestsKept /\ seen' = [m \in Natives |-> seen'[m]] /\ initialized' \in BOOLEAN
  BY InvParts DEF PollersOK, Functions, RestsKept
<1>3. Endpoints' = Endpoints
  BY InvParts DEF Endpoints, Functions
<1>4. initialized' = (Endpoints' # {})
  BY <1>3, InvParts
<1> QED  BY <1>1, <1>2, <1>4, EndpointStep

LEMMA ListenKeeps ==
  ASSUME Inv, NEW e \in Ids, listen(e) PROVE Inv'
<1>1. PICK ep1 : ep1 = [endpoint[e] EXCEPT !.listening = TRUE]
  OBVIOUS
<1>2. endpoint' = [endpoint EXCEPT ![e] = ep1] /\ ~endpoint[e].stopped /\ endpoint[e].listed
  BY <1>1 DEF listen, Endpoints
<1>3. UNCHANGED <<initialized, native, callbacks, poller, messages, seen>>
  BY DEF listen
<1>4. EndpointOK(endpoint[e]) /\ endpoint[e].made
  BY <1>2, InvParts DEF EndpointOK
<1>5. ep1 \in EndpointRecord
  BY <1>1, <1>4 DEF EndpointOK, EndpointRecord
<1>6. /\ ep1.made = endpoint[e].made /\ ep1.listed = endpoint[e].listed /\ ep1.stopped = endpoint[e].stopped
      /\ ep1.events = endpoint[e].events /\ ep1.reported = endpoint[e].reported
      /\ ep1.overflow = endpoint[e].overflow /\ ep1.bytes = endpoint[e].bytes
  BY <1>1, <1>4 DEF EndpointOK, EndpointRecord
<1>7. EndpointOK(ep1)
  BY <1>2, <1>4, <1>5, <1>6 DEF EndpointOK
<1>8. messages' \in 0..MaxMessages
  BY <1>3, InvParts DEF Functions
<1> QED  BY <1>2, <1>3, <1>4, <1>6, <1>7, <1>8, AsideStep

LEMMA GnsMessageKeeps ==
  ASSUME Inv, NEW n \in Natives, NEW size \in Sizes, GnsMessage(n, size) PROVE Inv'
<1>1. PICK e : e = native[n].of
  OBVIOUS
<1>2. NativeOK(n, native[n], endpoint[e], seen[n], callbacks) /\ native[n].state # "unused"
  BY <1>1, InvParts DEF GnsMessage
<1>3. e \in Ids /\ endpoint[e].made /\ EndpointOK(endpoint[e])
  BY <1>1, <1>2, InUse, InvParts
<1>4. PICK box : box = Append(endpoint[e].inbox, [native |-> n, size |-> size])
  OBVIOUS
<1>5. box \in Seq(Message)
  <2>1. endpoint[e].inbox \in Seq(Message)
    BY <1>3 DEF EndpointOK, EndpointRecord
  <2>2. [native |-> n, size |-> size] \in Message
    BY Constants DEF Message
  <2> QED  BY <1>4, <2>1, <2>2, Appended
<1>6. PICK ep1 : ep1 = [endpoint[e] EXCEPT !.inbox = box]
  OBVIOUS
<1>7. endpoint' = [endpoint EXCEPT ![e] = ep1]
  BY <1>1, <1>4, <1>6 DEF GnsMessage
<1>8. /\ EndpointOK(ep1) /\ ep1.made /\ ep1.listed = endpoint[e].listed /\ ep1.stopped = endpoint[e].stopped
      /\ ep1.events = endpoint[e].events /\ ep1.reported = endpoint[e].reported
  BY <1>3, <1>5, <1>6, InboxKeeps
<1>9. messages' \in 0..MaxMessages
  <2>1. messages \in 0..MaxMessages /\ messages < MaxMessages /\ messages' = messages + 1
    BY InvParts DEF Functions, GnsMessage
  <2> QED  BY <2>1, Constants
<1>10. UNCHANGED <<initialized, native, callbacks, poller, seen>>
  BY DEF GnsMessage
<1> QED  BY <1>3, <1>7, <1>8, <1>9, <1>10, AsideStep

\* Nothing but the endpoint's connection n changes, and a status change may come.
LEMMA ConnectionStep ==
  ASSUME Inv, NEW e \in Ids, endpoint[e].made, NEW n \in Natives, NEW c1,
         native' = [native EXCEPT ![n] = c1], c1.of = e, native[n].of \in {0, e},
         c1.owner \in {0, native[n].owner} \/ (c1.owner = e /\ Cardinality(Peers(e)) < MaxPeers),
         OtherChanges(n), NativeOK(n, c1, endpoint[e], seen[n], callbacks'),
         UNCHANGED <<initialized, endpoint, poller, messages, seen>>
  PROVE  Inv'
<1>1. PICK ep1 : ep1 = endpoint[e]
  OBVIOUS
<1>2. endpoint' = [endpoint EXCEPT ![e] = ep1]
  BY <1>1, InvParts DEF Functions
<1>3. EndpointMoves(e, n, ep1)
  BY <1>1, InvParts DEF EndpointMoves
<1>4. ConnectionMoves(e, n, c1)
  BY InvParts DEF ConnectionMoves, Functions
<1>5. OthersMove(e, n, ep1)
  <2>1. native' = [m \in Natives |-> native'[m]] /\ \A m \in Natives : m # n => native'[m] = native[m]
    BY InvParts DEF Functions
  <2> QED  BY <1>1, <2>1, Homes DEF OthersMove
<1> QED  BY <1>1, <1>2, <1>3, <1>4, <1>5, Step
\* A status change of n comes, or goes.
LEMMA Coming ==
  ASSUME Inv, NEW n \in Natives, NEW s \in {"connecting", "connected", "lost"},
         callbacks' = Append(callbacks, [native |-> n, state |-> s]),
         s # "connecting" \/ ~Awaits(n, callbacks)
  PROVE  OtherChanges(n) /\ (Awaits(n, callbacks') <=> Awaits(n, callbacks) \/ s = "connecting")
<1>1. PICK x : x = [native |-> n, state |-> s]
  OBVIOUS
<1>2. x \in Change /\ callbacks \in Seq(Change) /\ callbacks' = Append(callbacks, x)
  BY <1>1, InvParts DEF Change, Functions
<1>3. \A m \in Natives : Once(m, callbacks) /\ (x = FirstChange(m) <=> (m = n /\ s = "connecting"))
  BY <1>1, InvParts DEF NativeOK, FirstChange
<1>4. \A m \in Natives : /\ Once(m, callbacks')
                         /\ Awaits(m, callbacks') <=> Awaits(m, callbacks) \/ x = FirstChange(m)
  BY <1>2, <1>3, ChangeComes
<1>5. callbacks' \in Seq(Change)
  BY <1>2, Appended
<1> QED  BY <1>3, <1>4, <1>5 DEF OtherChanges

LEMMA Going ==
  ASSUME Inv, callbacks # <<>>, callbacks' = Tail(callbacks), NEW n, n = Head(callbacks).native
  PROVE  /\ n \in Natives /\ Head(callbacks).state \in {"connecting", "connected", "lost"}
         /\ OtherChanges(n)
         /\ Awaits(n, callbacks') <=> Awaits(n, callbacks) /\ Head(callbacks).state # "connecting"
         /\ Head(callbacks).state = "connecting" => Awaits(n, callbacks)
<1>1. /\ callbacks \in Seq(Change) /\ Head(callbacks) \in Change /\ Tail(callbacks) \in Seq(Change)
      /\ Head(callbacks) = callbacks[1] /\ 1 \in 1..Len(callbacks)
  BY InvParts, Beheaded DEF Functions
<1>2. n \in Natives /\ Head(callbacks).state \in {"connecting", "connected", "lost"}
  BY <1>1 DEF Change
<1>3. \A m \in Natives : Head(callbacks) = FirstChange(m) <=> (m = n /\ Head(callbacks).state = "connecting")
  BY <1>1 DEF Change, FirstChange
<1>4. \A m \in Natives : /\ Once(m, callbacks')
                         /\ Awaits(m, callbacks') <=> Awaits(m, callbacks) /\ Head(callbacks) # FirstChange(m)
  BY <1>1, InvParts, ChangeGoes DEF NativeOK
<1>5. OtherChanges(n)
  BY <1>1, <1>3, <1>4 DEF OtherChanges
<1>6. Head(callbacks).state = "connecting" => Awaits(n, callbacks)
  BY <1>1, <1>2, <1>3 DEF Awaits
<1> QED  BY <1>2, <1>3, <1>4, <1>5, <1>6

\* A connection not used before.
LEMMA Fresh ==
  ASSUME Inv, NEW e \in Ids, NEW n \in Natives, native[n] = NoNative
  PROVE  /\ seen[n] = <<>> /\ Quiet(n, endpoint[e].events, seen[n]) /\ Story(n, endpoint[e].events, seen[n])
         /\ ~Awaits(n, callbacks) /\ Once(n, callbacks) /\ native[n].of = 0 /\ native[n].owner = 0
<1>1. NativeOK(n, native[n], endpoint[native[n].of], seen[n], callbacks)
  BY InvParts
<1>2. native[n].state = "unused" /\ native[n].of = 0 /\ native[n].owner = 0
  BY DEF NoNative
<1>3. seen[n] = <<>> /\ ~Awaits(n, callbacks) /\ Once(n, callbacks)
  BY <1>1, <1>2 DEF NativeOK
<1>4. \A i \in 1..Len(endpoint[e].events) : endpoint[e].events[i].peer # n
  BY <1>2, Constants, InvParts DEF AtHome
<1>5. <<>> \in Seq(Kinds) /\ Len(<<>>) = 0
  OBVIOUS
<1> QED  BY <1>2, <1>3, <1>4, <1>5 DEF Quiet, Story, Ordered, Alive

\* A connection begins, ours or a peer's.
LEMMA ConnectionBegins ==
  ASSUME Inv, NEW e \in Ids, EndpointOK(endpoint[e]), endpoint[e].made, ~endpoint[e].stopped,
         NEW n \in Natives, native[n] = NoNative,
         NEW c1 \in NativeRecord, c1.state = "connecting", c1.of = e, c1.owner \in {0, e}, ~c1.connected,
         c1.inbound => c1.owner = 0, c1.owner = e => Cardinality(Peers(e)) < MaxPeers,
         native' = [native EXCEPT ![n] = c1],
         callbacks' = Append(callbacks, [native |-> n, state |-> "connecting"]),
         UNCHANGED <<initialized, endpoint, poller, messages, seen>>
  PROVE  Inv'
<1>1. /\ seen[n] = <<>> /\ Quiet(n, endpoint[e].events, seen[n]) /\ Story(n, endpoint[e].events, seen[n])
      /\ ~Awaits(n, callbacks) /\ native[n].of = 0
  BY Fresh
<1>2. OtherChanges(n) /\ Awaits(n, callbacks')
  BY <1>1, Coming
<1>4. Once(n, callbacks') /\ Len(seen[n]) = 0
  BY <1>1, <1>2 DEF OtherChanges
<1>5. NativeOK(n, c1, endpoint[e], seen[n], callbacks')
  <2>2. c1.state # "unused" /\ c1.state \in Open /\ c1.of \in Ids /\ c1.owner \in {0, c1.of}
    BY DEF Open
  <2>3. \A i \in 1..Len(seen[n]) : seen[n][i] = "overflow" => endpoint[e].reported
    BY <1>4
  <2> HIDE DEF Open
  <2> QED  BY <1>1, <1>2, <1>4, <2>2, <2>3 DEF NativeOK
<1>6. c1.owner \in {0, native[n].owner} \/ (c1.owner = e /\ Cardinality(Peers(e)) < MaxPeers)
  OBVIOUS
<1>7. native[n].of \in {0, e}
  BY <1>1
<1> QED  BY <1>2, <1>5, <1>6, <1>7, ConnectionStep

LEMMA ConnectKeeps ==
  ASSUME Inv, NEW e \in Ids, NEW n \in Natives, connect(e, n) PROVE Inv'
<1>1. /\ endpoint[e].listed /\ ~endpoint[e].stopped /\ Cardinality(Peers(e)) < MaxPeers /\ native[n] = NoNative
      /\ native' = [native EXCEPT ![n] = [NoNative EXCEPT !.state = "connecting", !.of = e, !.owner = e]]
      /\ callbacks' = Append(callbacks, [native |-> n, state |-> "connecting"])
  BY DEF connect, Endpoints
<1>2. UNCHANGED <<initialized, endpoint, poller, messages, seen>>
  BY DEF connect
<1>3. PICK c1 : c1 = [NoNative EXCEPT !.state = "connecting", !.of = e, !.owner = e]
  OBVIOUS
<1>4. /\ c1 \in NativeRecord /\ c1.state = "connecting" /\ c1.of = e /\ c1.owner = e /\ ~c1.connected
      /\ c1.inbound = FALSE
  BY <1>3 DEF NoNative, NativeRecord, Open
<1>6. native' = [native EXCEPT ![n] = c1]
  BY <1>1, <1>3
<1>5. EndpointOK(endpoint[e]) /\ endpoint[e].made /\ e # 0
  BY <1>1, InvParts, Constants DEF EndpointOK
<1> QED  BY <1>1, <1>2, <1>4, <1>5, <1>6, ConnectionBegins

LEMMA GnsInboundKeeps ==
  ASSUME Inv, NEW e \in Ids, NEW n \in Natives, GnsInbound(e, n) PROVE Inv'
<1>1. /\ endpoint[e].listening /\ native[n] = NoNative
      /\ native' = [native EXCEPT ![n] = [NoNative EXCEPT !.state = "connecting", !.of = e, !.inbound = TRUE]]
      /\ callbacks' = Append(callbacks, [native |-> n, state |-> "connecting"])
  BY DEF GnsInbound
<1>2. UNCHANGED <<initialized, endpoint, poller, messages, seen>>
  BY DEF GnsInbound
<1>3. PICK c1 : c1 = [NoNative EXCEPT !.state = "connecting", !.of = e, !.inbound = TRUE]
  OBVIOUS
<1>4. /\ c1 \in NativeRecord /\ c1.state = "connecting" /\ c1.of = e /\ c1.owner = 0 /\ ~c1.connected
      /\ c1.inbound = TRUE
  BY <1>3 DEF NoNative, NativeRecord, Open
<1>6. native' = [native EXCEPT ![n] = c1]
  BY <1>1, <1>3
<1>5. EndpointOK(endpoint[e]) /\ ~endpoint[e].stopped /\ endpoint[e].made /\ e # 0
  BY <1>1, InvParts, Constants DEF EndpointOK, NoEndpoint
<1> QED  BY <1>1, <1>2, <1>4, <1>5, <1>6, ConnectionBegins

\* GNS tells of a change of state.
LEMMA ChangesKeep ==
  ASSUME Inv, NEW n \in Natives, native[n].state \in {"connecting", "connected"},
         NEW s \in {"connected", "lost"}, Changes(n, s)
  PROVE  Inv'
<1>1. PICK e : e = native[n].of
  OBVIOUS
<1>2. PICK c1 : c1 = [native[n] EXCEPT !.state = s]
  OBVIOUS
<1>3. native' = [native EXCEPT ![n] = c1] /\ callbacks' = Append(callbacks, [native |-> n, state |-> s])
  BY <1>2 DEF Changes
<1>4. UNCHANGED <<initialized, endpoint, poller, messages, seen>>
  BY DEF Changes
<1>5. NativeOK(n, native[n], endpoint[e], seen[n], callbacks) /\ native[n].state # "unused"
  BY <1>1, InvParts
<1>6. e \in Ids /\ endpoint[e].made /\ native[n] \in NativeRecord
  BY <1>1, <1>5, InUse
<1>7. OtherChanges(n) /\ (Awaits(n, callbacks') <=> Awaits(n, callbacks)) /\ Once(n, callbacks')
  BY <1>3, Coming DEF OtherChanges
<1>8. /\ c1 \in NativeRecord /\ c1.state = s /\ c1.of = e /\ c1.owner = native[n].owner
      /\ c1.inbound = native[n].inbound /\ c1.connected = native[n].connected
  BY <1>1, <1>2, <1>6 DEF NativeRecord, Open
<1>9. NativeOK(n, native[n], endpoint[e], seen[n], callbacks')
  BY <1>5, <1>7, ChangesAside
<1>10. NativeOK(n, c1, endpoint[e], seen[n], callbacks')
  BY <1>1, <1>5, <1>8, <1>9 DEF NativeOK, Open
<1> QED  BY <1>1, <1>3, <1>4, <1>6, <1>7, <1>8, <1>10, ConnectionStep

LEMMA GnsKeeps ==
  ASSUME Inv, NEW n \in Natives, GnsConnected(n) \/ GnsLost(n) PROVE Inv'
BY ChangesKeep DEF GnsConnected, GnsLost
\* A peer of an endpoint.
LEMMA PeerFacts ==
  ASSUME Inv, NEW e \in Ids, NEW n \in Natives, native[n].owner = e
  PROVE  /\ native[n].of = e /\ native[n].state # "unused" /\ Resembles(endpoint[e], e)
         /\ NativeOK(n, native[n], endpoint[e], seen[n], callbacks)
         /\ NotEnded(n, endpoint[e].events, seen[n]) /\ ~(native[n].inbound /\ Awaits(n, callbacks))
<1>1. native[n].of = e /\ e # 0 /\ native[n].state # "unused"
  BY Homes, Constants DEF Open
<1>2. NativeOK(n, native[n], endpoint[e], seen[n], callbacks)
  BY <1>1, InvParts
<1>3. /\ endpoint[e].made /\ ~endpoint[e].stopped /\ NotEnded(n, endpoint[e].events, seen[n])
      /\ ~(native[n].inbound /\ Awaits(n, callbacks))
  BY <1>1, <1>2, InUse
<1> QED  BY <1>1, <1>2, <1>3, InvParts DEF Resembles

\* No status change comes or goes.
LEMMA NoChange ==
  ASSUME Inv, UNCHANGED callbacks PROVE \A n \in Natives : OtherChanges(n)
BY InvParts DEF OtherChanges, NativeOK, Functions

LEMMA DisconnectKeeps ==
  ASSUME Inv, NEW e \in Ids, NEW n \in Natives, disconnect(e, n) PROVE Inv'
<1>1. native[n].owner = e /\ drop(e, endpoint[e], n)
  BY DEF disconnect, Peers
<1>2. UNCHANGED <<initialized, callbacks, poller, messages, seen>>
  BY DEF disconnect
<1>3. OtherChanges(n)
  BY <1>2, NoChange
<1>4. /\ native[n].of = e /\ Resembles(endpoint[e], e) /\ NotEnded(n, endpoint[e].events, seen[n])
      /\ ~(native[n].inbound /\ Awaits(n, callbacks'))
  BY <1>1, <1>2, PeerFacts
<1>5. PICK ep : ep = endpoint[e]
  OBVIOUS
<1> QED  BY <1>1, <1>2, <1>3, <1>4, <1>5, DropStep

\* Endpoint e is gone, and connections with it.
LEMMA DestroyStep ==
  ASSUME Inv, NEW e \in Ids, NEW ep1, endpoint' = [endpoint EXCEPT ![e] = ep1], EndpointOK(ep1),
         ep1.events = <<>>, ep1.made,
         native' = [m \in Natives |-> native'[m]], \A m \in Natives : native'[m] \in {native[m], Closed(m)},
         \A m \in Natives :
           NativeOK(m, native'[m], IF native[m].of = e THEN ep1 ELSE endpoint[native[m].of],
                    seen[m], callbacks'),
         callbacks' \in Seq(Change), initialized' \in BOOLEAN, initialized' = (Endpoints' # {}),
         UNCHANGED <<poller, messages, seen>>
  PROVE  Inv'
<1>1. \A d \in Ids : endpoint'[d] = IF d = e THEN ep1 ELSE endpoint[d]
  BY InvParts DEF Functions
<1>2. \A m \in Natives : native'[m].of = native[m].of /\ native'[m].owner \in {0, native[m].owner}
  <2> SUFFICES ASSUME NEW m \in Natives, native'[m] = Closed(m)
               PROVE  native'[m].of = native[m].of /\ native'[m].owner = 0
    OBVIOUS
  <2>1. native[m] \in NativeRecord /\ native'[m] = Shut(native[m])
    BY InvParts DEF NativeOK, Closed, Shut
  <2> QED  BY <2>1, ShutFields
<1>3. Functions'
  <2>1. endpoint' = [d \in Ids |-> endpoint'[d]] /\ DOMAIN endpoint' = Ids /\ DOMAIN native' = Natives
    BY InvParts DEF Functions
  <2> QED  BY <2>1, InvParts DEF Functions
<1>4. PollersOK'
  BY InvParts DEF PollersOK
<1>5. \A d \in Ids : EndpointOK(endpoint'[d])
  BY <1>1, InvParts
<1>6. ASSUME NEW d \in Ids PROVE AtHome(d)'
  <2>1. CASE d = e
    BY <1>1, <2>1 DEF AtHome
  <2>2. CASE d # e
    <3>1. AtHome(d) /\ endpoint[d].events \in Seq(QueuedEvent) /\ endpoint'[d] = endpoint[d]
      BY <1>1, <2>2, InvParts DEF EndpointOK, EndpointRecord
    <3>2. ASSUME NEW i \in 1..Len(endpoint[d].events) PROVE native'[endpoint[d].events[i].peer].of = d
      <4>1. endpoint[d].events[i] \in QueuedEvent
        BY <3>1
      <4> QED  BY <1>2, <3>1, <4>1 DEF AtHome, QueuedEvent
    <3> QED  BY <3>1, <3>2 DEF AtHome
  <2> QED  BY <2>1, <2>2
<1>7. ASSUME NEW d \in Ids PROVE PeersOK(d)'
  <2>1. Peers(d)' \subseteq Peers(d)
    BY <1>2, Constants DEF Peers
  <2> QED  BY <2>1, InvParts, PeersKept
<1>8. ASSUME NEW m \in Natives
      PROVE  NativeOK(m, native'[m], endpoint'[native'[m].of], seen'[m], callbacks')
  <2>1. CASE native[m].of \in Ids
    BY <1>1, <1>2, <2>1
  <2>2. CASE native[m].of \notin Ids
    <3>1. NativeOK(m, native'[m], endpoint[native[m].of], seen[m], callbacks') /\ native'[m].of \notin Ids
      BY <1>2, <2>2
    <3>2. native'[m].state # "unused" => endpoint'[native'[m].of] = endpoint[native[m].of]
      BY <3>1 DEF NativeOK
    <3>3. NativeOK(m, native'[m], endpoint'[native'[m].of], seen[m], callbacks')
      BY <3>1, <3>2, EndpointAside
    <3> QED  BY <3>3
  <2> QED  BY <2>1, <2>2
<1>9. RestMade'
  BY <1>1, RestKept DEF RestsKept
<1> QED  BY <1>3, <1>4, <1>5, <1>6, <1>7, <1>8, <1>9 DEF Inv

\* With GNS, every connection ends, and no status change is to come.
LEMMA Forgotten ==
  ASSUME NEW n \in Natives, NEW c, NEW ep, NEW said, NEW changes, NativeOK(n, c, ep, said, changes),
         NEW c1, c1 = IF c.state \in Open THEN Shut(c) ELSE c
  PROVE  NativeOK(n, c1, ep, said, <<>>) /\ c1.owner = 0 /\ (c1.state = "unused" <=> c.state = "unused")
<1>1. Once(n, <<>>) /\ ~Awaits(n, <<>>)
  BY DEF Once, Awaits
<1>2. c \in NativeRecord
  BY DEF NativeOK
<1>3. CASE c.state \in Open
  <2>1. c.state # "unused" /\ c1 = Shut(c)
    BY <1>3 DEF Open
  <2> QED  BY <1>1, <1>2, <2>1, ClosedQuietly, ShutFields
<1>4. CASE c.state \notin Open
  <2>1. c1 = c
    BY <1>4
  <2>2. c.owner = 0
    <3>1. CASE c.state = "unused"
      BY <3>1 DEF NativeOK, NoNative
    <3>2. CASE c.state # "unused"
      BY <1>4, <3>2 DEF NativeOK
    <3> QED  BY <3>1, <3>2
  <2>3. NativeOK(n, c, ep, said, <<>>)
    BY <1>1, <1>4, <2>2 DEF NativeOK
  <2> QED  BY <2>1, <2>2, <2>3
<1> QED  BY <1>3, <1>4

LEMMA DestroyKeeps ==
  ASSUME Inv, NEW e \in Ids, destroy(e) PROVE Inv'
<1>1. PICK ep0 : ep0 = shutdown(endpoint[e])
  OBVIOUS
<1>2. PICK ep1 : ep1 = [ep0 EXCEPT !.listed = FALSE]
  OBVIOUS
<1>3. endpoint' = [endpoint EXCEPT ![e] = ep1] /\ endpoint[e].listed /\ release_if_empty(e)
  BY <1>1, <1>2 DEF destroy, Endpoints
<1>4. UNCHANGED <<poller, messages, seen>>
  BY DEF destroy
<1>5. EndpointOK(endpoint[e]) /\ endpoint[e].made
  BY <1>3, InvParts DEF EndpointOK
<1>6. EndpointOK(ep0) /\ ep0.made /\ ep0.reported = endpoint[e].reported /\ ep0.stopped /\ ep0.events = <<>>
  BY <1>1, <1>5, ShutDown
<1>7. /\ ep1 \in EndpointRecord /\ ep1.made = ep0.made /\ ~ep1.listed /\ ep1.reported = ep0.reported
      /\ ep1.stopped = ep0.stopped /\ ep1.events = ep0.events /\ ep1.listening = ep0.listening
      /\ ep1.overflow = ep0.overflow /\ ep1.bytes = ep0.bytes
  BY <1>2, <1>6 DEF EndpointOK, EndpointRecord
<1>8. EndpointOK(ep1) /\ ep1.made /\ ep1.stopped /\ ep1.events = <<>> /\ (endpoint[e].reported => ep1.reported)
  BY <1>6, <1>7 DEF EndpointOK
<1>9. Endpoints' = Endpoints \ {e}
  BY <1>3, <1>7, InvParts DEF Endpoints, Functions
<1>10. \A m \in Natives : native[m] \in NativeRecord /\ Closed(m) = Shut(native[m])
  BY InvParts DEF NativeOK, Closed, Shut
<1>11. CASE Endpoints = {e}
  <2>1. /\ initialized' = FALSE /\ callbacks' = <<>>
        /\ native' = [n \in Natives |-> IF native[n].state \in Open THEN Closed(n) ELSE native[n]]
    BY <1>3, <1>11 DEF release_if_empty
  <2>2. initialized' \in BOOLEAN /\ initialized' = (Endpoints' # {}) /\ callbacks' \in Seq(Change)
    <3>1. Endpoints' = {} /\ <<>> \in Seq(Change)
      BY <1>9, <1>11
    <3>2. (Endpoints' # {}) = FALSE
      BY <3>1
    <3> QED  BY <2>1, <3>1, <3>2
  <2>3. native' = [m \in Natives |-> native'[m]] /\ \A m \in Natives : native'[m] \in {native[m], Closed(m)}
    BY <2>1
  <2>4. ASSUME NEW m \in Natives
        PROVE  NativeOK(m, native'[m], IF native[m].of = e THEN ep1 ELSE endpoint[native[m].of],
                        seen[m], callbacks')
    <3>1. PICK c1 : c1 = native'[m]
      OBVIOUS
    <3>2. c1 = IF native[m].state \in Open THEN Shut(native[m]) ELSE native[m]
      BY <1>10, <2>1, <3>1
    <3>3. /\ NativeOK(m, c1, endpoint[native[m].of], seen[m], <<>>) /\ c1.owner = 0
          /\ (c1.state = "unused" <=> native[m].state = "unused") /\ Once(m, <<>>)
      <4>1. NativeOK(m, native[m], endpoint[native[m].of], seen[m], callbacks) /\ Once(m, <<>>)
        BY InvParts DEF Once
      <4> QED  BY <3>2, <4>1, Forgotten
    <3>4. CASE native[m].of = e
      <4>1. c1.state # "unused"
        BY <3>3, <3>4, Homes
      <4>2. NativeOK(m, c1, endpoint[e], seen[m], <<>>)
        BY <3>3, <3>4
      <4>3. NativeOK(m, c1, ep1, seen[m], <<>>)
        BY <1>8, <3>3, <4>1, <4>2, ShutWithEndpoint
      <4> QED  BY <2>1, <3>1, <3>4, <4>3
    <3>5. CASE native[m].of # e
      BY <2>1, <3>1, <3>3, <3>5
    <3> QED  BY <3>4, <3>5
  <2> QED  BY <1>3, <1>4, <1>8, <2>2, <2>3, <2>4, DestroyStep
<1>12. CASE Endpoints # {e}
  <2>1. /\ UNCHANGED <<initialized, callbacks>>
        /\ native' = [n \in Natives |-> IF native[n].owner = e THEN Closed(n) ELSE native[n]]
    BY <1>3, <1>12 DEF release_if_empty
  <2>2. initialized' \in BOOLEAN /\ initialized' = (Endpoints' # {}) /\ callbacks' \in Seq(Change)
    <3>1. e \in Endpoints /\ Endpoints' # {} /\ initialized = (Endpoints # {}) /\ initialized \in BOOLEAN
      BY <1>3, <1>9, <1>12, InvParts DEF Endpoints, Functions
    <3> QED  BY <2>1, <3>1, InvParts DEF Functions
  <2>3. native' = [m \in Natives |-> native'[m]] /\ \A m \in Natives : native'[m] \in {native[m], Closed(m)}
    BY <2>1
  <2>4. ASSUME NEW m \in Natives
        PROVE  NativeOK(m, native'[m], IF native[m].of = e THEN ep1 ELSE endpoint[native[m].of],
                        seen[m], callbacks')
    <3>1. PICK c1 : c1 = native'[m]
      OBVIOUS
    <3>2. NativeOK(m, native[m], endpoint[native[m].of], seen[m], callbacks) /\ Once(m, callbacks)
      BY InvParts DEF NativeOK
    <3>3. CASE native[m].of = e
      <4>1. native[m].state # "unused" /\ native[m].owner \in {0, e}
        BY <3>3, Homes
      <4>2. c1 = Shut(native[m]) \/ (c1 = native[m] /\ native[m].owner = 0)
        BY <1>10, <2>1, <3>1, <4>1
      <4>3. NativeOK(m, native[m], endpoint[e], seen[m], callbacks)
        BY <3>2, <3>3
      <4>4. NativeOK(m, c1, ep1, seen[m], callbacks)
        BY <1>8, <3>2, <4>1, <4>2, <4>3, ShutWithEndpoint
      <4> QED  BY <2>1, <3>1, <3>3, <4>4
    <3>4. CASE native[m].of # e
      <4>1. native'[m] = native[m]
        BY <2>1, <3>4, Homes
      <4> QED  BY <2>1, <3>2, <3>4, <4>1
    <3> QED  BY <3>3, <3>4
  <2> QED  BY <1>3, <1>4, <1>8, <2>2, <2>3, <2>4, DestroyStep
<1> QED  BY <1>11, <1>12
\* One poll moves on; it has the mutex only if it had it or nobody did.
LEMMA OnePoller ==
  ASSUME PollersOK, NEW t \in Pollers, NEW p \in PollerRecord, poller' = [poller EXCEPT ![t] = p],
         p.at # "idle" => p.of \in Ids, p.at \in Holding => poller[t].at \in Holding \/ MutexFree,
         p.rest \subseteq poller[t].rest \cup Endpoints
  PROVE  PollersOK' /\ RestsKept
<1>1. \A u \in Pollers : poller'[u] = IF u = t THEN p ELSE poller[u]
  BY DEF PollersOK
<1>2. poller' \in [Pollers -> PollerRecord]
  BY DEF PollersOK
<1>3. \A u, v \in Pollers : poller'[u].at \in Holding /\ poller'[v].at \in Holding => u = v
  BY <1>1 DEF PollersOK, MutexFree
<1>4. \A u \in Pollers : poller'[u].at # "idle" => poller'[u].of \in Ids
  BY <1>1 DEF PollersOK
<1>5. RestsKept
  BY <1>1 DEF RestsKept
<1> QED  BY <1>2, <1>3, <1>4, <1>5 DEF PollersOK

\* It goes to another place.
LEMMA PollerAt ==
  ASSUME PollersOK, NEW t \in Pollers, NEW where \in Holding \cup {"wait"}, At(t, where),
         poller[t].at # "idle", where \in Holding => poller[t].at \in Holding \/ MutexFree
  PROVE  PollersOK' /\ RestsKept
<1>1. PICK p : p = [poller[t] EXCEPT !.at = where]
  OBVIOUS
<1>2. poller[t] \in PollerRecord /\ poller[t].of \in Ids
  BY DEF PollersOK
<1>3. p \in PollerRecord /\ p.at = where /\ p.of = poller[t].of /\ p.rest = poller[t].rest
  BY <1>1, <1>2 DEF PollerRecord
<1>4. poller' = [poller EXCEPT ![t] = p]
  BY <1>1 DEF At
<1> QED  BY <1>2, <1>3, <1>4, OnePoller

\* It returns.
LEMMA PollerReturns ==
  ASSUME PollersOK, NEW t \in Pollers, poller' = [poller EXCEPT ![t] = NotPolling]
  PROVE  PollersOK' /\ RestsKept
<1>1. NotPolling \in PollerRecord /\ NotPolling.at = "idle" /\ NotPolling.at \notin Holding /\ NotPolling.rest = {}
  BY DEF NotPolling, PollerRecord, Holding
<1>2. PICK p : p = NotPolling
  OBVIOUS
<1> QED  BY <1>1, <1>2, OnePoller

LEMMA PollKeeps ==
  ASSUME Inv, NEW t \in Pollers, NEW e \in Ids, poll(t, e) PROVE Inv'
<1>1. PICK p : p = [NotPolling EXCEPT !.at = "take", !.of = e]
  OBVIOUS
<1>2. p \in PollerRecord /\ p.of = e /\ p.rest = {}
  BY <1>1 DEF NotPolling, PollerRecord, Holding
<1>3. MutexFree /\ poller' = [poller EXCEPT ![t] = p]
  BY <1>1 DEF poll
<1>4. PollersOK' /\ RestsKept
  BY <1>2, <1>3, InvParts, OnePoller
<1> QED  BY <1>4, PollerStep DEF poll

LEMMA TakesNothingKeeps ==
  ASSUME Inv, NEW t \in Pollers, TakesNothing(t) PROVE Inv'
<1>1. /\ poller[t].at # "idle" /\ poller[t].at \in Holding
      /\ {"callbacks", "retake"} \subseteq Holding /\ "wait" \notin Holding
  BY DEF TakesNothing, Holding
<1>2. \/ At(t, "callbacks") \/ At(t, "retake") \/ At(t, "wait")
      \/ poller' = [poller EXCEPT ![t] = NotPolling]
  BY DEF TakesNothing
<1>3. PollersOK' /\ RestsKept
  BY <1>1, <1>2, InvParts, PollerAt, PollerReturns
<1> QED  BY <1>3, PollerStep DEF TakesNothing

LEMMA WakesKeeps ==
  ASSUME Inv, NEW t \in Pollers, Wakes(t) PROVE Inv'
<1>1. poller[t].at # "idle" /\ MutexFree /\ At(t, "take") /\ "take" \in Holding
  BY DEF Wakes, Holding
<1>2. PollersOK' /\ RestsKept
  BY <1>1, InvParts, PollerAt
<1> QED  BY <1>2, PollerStep DEF Wakes

LEMMA CallbacksDoneKeeps ==
  ASSUME Inv, NEW t \in Pollers, CallbacksDone(t) PROVE Inv'
<1>1. PICK p : p = [poller[t] EXCEPT !.at = "receive", !.rest = Endpoints]
  OBVIOUS
<1>2. poller[t] \in PollerRecord /\ poller[t].at = "callbacks" /\ poller[t].of \in Ids /\ Endpoints \in SUBSET Ids
  BY InvParts DEF PollersOK, CallbacksDone, Endpoints
<1>3. p \in PollerRecord /\ p.of = poller[t].of /\ p.rest = Endpoints /\ "callbacks" \in Holding
  BY <1>1, <1>2 DEF PollerRecord, Holding
<1>4. poller' = [poller EXCEPT ![t] = p]
  BY <1>1 DEF CallbacksDone
<1>5. PollersOK' /\ RestsKept
  BY <1>2, <1>3, <1>4, InvParts, OnePoller
<1> QED  BY <1>5, PollerStep DEF CallbacksDone

LEMMA ReceivedKeeps ==
  ASSUME Inv, NEW t \in Pollers, NEW e \in Ids, Received(t, e) PROVE Inv'
<1>1. PICK p : p = [poller[t] EXCEPT !.rest = @ \ {e}]
  OBVIOUS
<1>2. poller[t] \in PollerRecord /\ poller[t].at = "receive" /\ poller[t].of \in Ids
  BY InvParts DEF PollersOK, Received
<1>3. p \in PollerRecord /\ p.of = poller[t].of /\ p.rest \subseteq poller[t].rest /\ "receive" \in Holding
  BY <1>1, <1>2 DEF PollerRecord, Holding
<1>4. poller' = [poller EXCEPT ![t] = p]
  BY <1>1 DEF Received
<1>5. PollersOK' /\ RestsKept
  BY <1>2, <1>3, <1>4, InvParts, OnePoller
<1> QED  BY <1>5, PollerStep DEF Received

LEMMA PumpDoneKeeps ==
  ASSUME Inv, NEW t \in Pollers, PumpDone(t) PROVE Inv'
<1>1. poller[t].at = "receive" /\ At(t, "retake") /\ {"receive", "retake"} \subseteq Holding
  BY DEF PumpDone, Holding
<1>2. PollersOK' /\ RestsKept
  BY <1>1, InvParts, PollerAt
<1> QED  BY <1>2, PollerStep DEF PumpDone

LEMMA TakeKeeps ==
  ASSUME Inv, NEW t \in Pollers, take(t) PROVE Inv'
<1>1. PICK e : e = poller[t].of
  OBVIOUS
<1>2. PollersOK' /\ RestsKept /\ e \in Ids
  <2>1. poller' = [poller EXCEPT ![t] = NotPolling] /\ poller[t].at # "idle"
    BY DEF take
  <2> QED  BY <1>1, <2>1, InvParts, PollerReturns DEF PollersOK
<1>3. UNCHANGED <<initialized, native, callbacks, messages>>
  BY DEF take
<1>4. PICK ep : ep = endpoint[e]
  OBVIOUS
<1>5. EndpointOK(ep) /\ ep \in EndpointRecord
  BY <1>2, <1>4, InvParts DEF EndpointOK
<1>6. \A m \in Natives : native[m].of = e =>
        NativeOK(m, native[m], ep, seen[m], callbacks) /\ native[m].state # "unused"
  BY <1>2, <1>4, InvParts, Homes
<1>7. messages' \in 0..MaxMessages /\ initialized' \in BOOLEAN
  BY <1>3, InvParts DEF Functions
<1>8. CASE UNCHANGED <<endpoint, seen>>
  BY <1>2, <1>3, <1>8, PollerStep
<1>9. CASE /\ ep.overflow /\ ~ep.reported
           /\ endpoint' = [endpoint EXCEPT ![e].reported = TRUE]
           /\ seen' = [n \in Natives |-> IF native[n].of = e THEN Append(seen[n], "overflow") ELSE seen[n]]
  <2>1. PICK ep1 : ep1 = [ep EXCEPT !.reported = TRUE]
    OBVIOUS
  <2>2. endpoint' = [endpoint EXCEPT ![e] = ep1]
    BY <1>4, <1>9, <2>1
  <2>3. /\ ep1 \in EndpointRecord /\ ep1.reported /\ ep1.made = ep.made /\ ep1.listed = ep.listed
        /\ ep1.stopped = ep.stopped /\ ep1.overflow = ep.overflow /\ ep1.events = ep.events
        /\ ep1.bytes = ep.bytes /\ ep1.listening = ep.listening
    BY <1>5, <2>1 DEF EndpointRecord
  <2>4. ep.stopped /\ ep.events = <<>> /\ ep.made
    BY <1>5, <1>9 DEF EndpointOK, NoEndpoint
  <2>5. EndpointOK(ep1)
    BY <1>5, <1>9, <2>3, <2>4 DEF EndpointOK
  <2>6. seen' = [m \in Natives |-> seen'[m]] /\ \A m \in Natives : native[m].of # e => seen'[m] = seen[m]
    BY <1>9
  <2>7. ASSUME NEW m \in Natives, native[m].of = e PROVE NativeOK(m, native[m], ep1, seen'[m], callbacks)
    <3>1. /\ NativeOK(m, native[m], ep, seen[m], callbacks) /\ native[m].state # "unused"
          /\ seen'[m] = Append(seen[m], "overflow")
      BY <1>6, <1>9, <2>7
    <3>2. /\ Story(m, ep.events, seen[m]) /\ native[m].owner = 0
          /\ \A i \in 1..Len(seen[m]) : seen[m][i] # "overflow"
      BY <1>9, <2>4, <3>1, InUse
    <3>3. Story(m, ep1.events, seen'[m])
      BY <2>3, <2>4, <3>1, <3>2, StoryWiped
    <3> QED  BY <2>3, <2>4, <3>1, <3>2, <3>3 DEF NativeOK
  <2>8. Endpoints' = Endpoints
    BY <1>2, <1>4, <2>2, <2>3, InvParts DEF Endpoints, Functions
  <2>9. initialized' = (Endpoints' # {})
    BY <1>3, <2>8, InvParts
  <2>10. ep1.events = endpoint[e].events /\ (endpoint[e].made => ep1.made)
    BY <1>4, <2>3
  <2> QED  BY <1>2, <1>3, <1>7, <2>2, <2>5, <2>6, <2>7, <2>9, <2>10, EndpointStep
<1>10. CASE /\ ep.events # <<>>
            /\ endpoint' = [endpoint EXCEPT ![e].events = Tail(@), ![e].bytes = @ - Cost(Head(ep.events))]
            /\ seen' = [seen EXCEPT ![Head(ep.events).peer] = Append(@, Head(ep.events).kind)]
  <2>1. PICK ep1 : ep1 = [ep EXCEPT !.events = Tail(@), !.bytes = @ - Cost(Head(ep.events))]
    OBVIOUS
  <2>2. endpoint' = [endpoint EXCEPT ![e] = ep1]
    BY <1>2, <1>4, <1>10, <2>1, InvParts DEF Functions
  <2>3. /\ ep.events \in Seq(QueuedEvent) /\ Tail(ep.events) \in Seq(QueuedEvent)
        /\ Head(ep.events) \in QueuedEvent /\ Head(ep.events).peer \in Natives
        /\ ep.bytes - Cost(Head(ep.events)) \in Nat
        /\ Accounted(Tail(ep.events), ep.bytes - Cost(Head(ep.events)))
    <3>1. ep.events \in Seq(QueuedEvent) /\ Accounted(ep.events, ep.bytes)
      BY <1>5 DEF EndpointOK, EndpointRecord
    <3>2. Tail(ep.events) \in Seq(QueuedEvent) /\ Head(ep.events) \in QueuedEvent
      BY <1>10, <3>1, Beheaded
    <3> QED  BY <1>10, <3>1, <3>2, AccountedTail DEF QueuedEvent
  <2>4. /\ ep1 \in EndpointRecord /\ ep1.reported = ep.reported /\ ep1.made = ep.made /\ ep1.listed = ep.listed
        /\ ep1.stopped = ep.stopped /\ ep1.overflow = ep.overflow /\ ep1.events = Tail(ep.events)
        /\ ep1.bytes = ep.bytes - Cost(Head(ep.events)) /\ ep1.listening = ep.listening
    BY <1>5, <2>1, <2>3 DEF EndpointRecord
  <2>5. ~ep.stopped /\ ep.made
    BY <1>5, <1>10 DEF EndpointOK, NoEndpoint
  <2>6. EndpointOK(ep1)
    BY <1>5, <2>3, <2>4, <2>5 DEF EndpointOK
  <2>7. \A m \in Natives : seen'[m] = IF Head(ep.events).peer = m
                                       THEN Append(seen[m], Head(ep.events).kind) ELSE seen[m]
    BY <1>10, InvParts DEF Functions
  <2>8. seen' = [m \in Natives |-> seen'[m]]
    BY <1>10, <2>3, InvParts DEF Functions
  <2>9. \A m \in Natives : native[m].of # e => seen'[m] = seen[m]
    <3>1. Head(ep.events) = ep.events[1] /\ 1 \in 1..Len(ep.events)
      BY <1>10, <2>3, Beheaded
    <3>2. native[Head(ep.events).peer].of = e
      BY <1>2, <1>4, <3>1, InvParts DEF AtHome
    <3> QED  BY <2>7, <3>2
  <2>10. ASSUME NEW m \in Natives, native[m].of = e PROVE NativeOK(m, native[m], ep1, seen'[m], callbacks)
    <3>1. NativeOK(m, native[m], ep, seen[m], callbacks) /\ native[m].state # "unused"
      BY <1>6, <2>10
    <3>2. PICK next : next = seen'[m]
      OBVIOUS
    <3>3. Story(m, ep.events, seen[m])
      BY <3>1, InUse
    <3>4. /\ Story(m, ep1.events, next)
          /\ Quiet(m, ep.events, seen[m]) => Quiet(m, ep1.events, next)
          /\ Begun(m, ep.events, seen[m]) => Begun(m, ep1.events, next)
          /\ NotEnded(m, ep.events, seen[m]) => NotEnded(m, ep1.events, next)
          /\ (\E i \in 1..Len(next) : next[i] = "overflow") => \E i \in 1..Len(seen[m]) : seen[m][i] = "overflow"
      <4>1. /\ next = IF Head(ep.events).peer = m THEN Append(seen[m], Head(ep.events).kind) ELSE seen[m]
            /\ ep.events \in Seq(QueuedEvent) /\ ep.events # <<>> /\ ep1.events = Tail(ep.events)
        BY <1>10, <2>3, <2>4, <2>7, <3>2
      <4>2. Told(m, ep.events, seen[m], next)
        BY <4>1 DEF Told
      <4>3. /\ ep.events \in Seq(QueuedEvent) /\ ep.events # <<>>
            /\ Story(m, ep.events, seen[m]) /\ Told(m, ep.events, seen[m], next)
        BY <3>3, <4>1, <4>2
      <4>4. /\ Story(m, Tail(ep.events), next)
            /\ Quiet(m, ep.events, seen[m]) => Quiet(m, Tail(ep.events), next)
            /\ Begun(m, ep.events, seen[m]) => Begun(m, Tail(ep.events), next)
            /\ NotEnded(m, ep.events, seen[m]) => NotEnded(m, Tail(ep.events), next)
            /\ Overflowed(next) => Overflowed(seen[m])
        BY ONLY <4>3, StoryTake
      <4> QED  BY <4>1, <4>4 DEF Overflowed
    <3>5. NativeOK(m, native[m], ep1, next, callbacks)
      BY <2>4, <3>1, <3>4 DEF NativeOK
    <3> QED  BY <3>2, <3>5
  <2>11. Endpoints' = Endpoints
    BY <1>2, <1>4, <2>2, <2>4, InvParts DEF Endpoints, Functions
  <2>12. initialized' = (Endpoints' # {})
    BY <1>3, <2>11, InvParts
  <2>13. endpoint[e].events # <<>> /\ ep1.events = Tail(endpoint[e].events) /\ (endpoint[e].made => ep1.made)
    BY <1>4, <1>10, <2>4
  <2> QED  BY <1>2, <1>3, <1>7, <2>2, <2>6, <2>8, <2>9, <2>10, <2>12, <2>13, EndpointStep
<1> QED  BY <1>1, <1>4, <1>8, <1>9, <1>10 DEF take
-----------------------------------------------------------------------------
(***************************************************************************)
(* What a poll pumps: messages and status changes.                         *)
(***************************************************************************)

\* Nothing is left of endpoint e's peers.
LEMMA Overflows ==
  ASSUME Inv, NEW e \in Ids, endpoint[e].made, Becomes(e, overflow(endpoint[e]), {}),
         UNCHANGED <<initialized, callbacks, poller, messages, seen>>
  PROVE  Inv'
<1>1. PICK ep1 : ep1 = overflow(endpoint[e])
  OBVIOUS
<1>2. /\ EndpointOK(ep1) /\ ep1.made /\ ep1.listed = endpoint[e].listed
      /\ ep1.reported = endpoint[e].reported /\ ep1.stopped /\ ep1.events = <<>>
  BY <1>1, InvParts, ShutDown
<1>3. endpoint' = [endpoint EXCEPT ![e] = ep1]
  BY <1>1 DEF Becomes
<1>4. native' = [m \in Natives |-> IF native[m].owner = e THEN Closed(m) ELSE native[m]]
  BY <1>1, <1>2 DEF Becomes
<1> QED  BY <1>2, <1>3, <1>4, OverflowStep

LEMMA ReceiveFailsKeeps ==
  ASSUME Inv, NEW t \in Pollers, NEW e \in Ids, ReceiveFails(t, e) PROVE Inv'
<1>1. e \in poller[t].rest /\ Becomes(e, overflow(endpoint[e]), {})
  BY DEF ReceiveFails
<1>2. UNCHANGED <<initialized, callbacks, poller, messages, seen>>
  BY DEF ReceiveFails
<1>3. endpoint[e].made
  BY <1>1, InvParts DEF RestMade
<1> QED  BY <1>1, <1>2, <1>3, Overflows

LEMMA ReceiveKeeps ==
  ASSUME Inv, NEW t \in Pollers, NEW e \in Ids, receive(t, e) PROVE Inv'
<1>1. PICK m : m = Head(endpoint[e].inbox)
  OBVIOUS
<1>2. PICK read : read = [endpoint[e] EXCEPT !.inbox = Tail(@)]
  OBVIOUS
<1>3. /\ e \in poller[t].rest /\ ~endpoint[e].stopped /\ endpoint[e].inbox # <<>>
      /\ \/ m.native \notin Peers(e) /\ Becomes(e, read, {})
         \/ m.native \in Peers(e) /\ drop(e, read, m.native)
         \/ /\ m.native \in Peers(e) /\ native[m.native].connected
            /\ \E ep \in push(read, Event("message", m.native, m.size)) : Becomes(e, ep, {})
  BY <1>1, <1>2 DEF receive
<1>4. UNCHANGED <<initialized, callbacks, poller, messages, seen>>
  BY DEF receive
<1>5. EndpointOK(endpoint[e]) /\ endpoint[e].made /\ endpoint[e].inbox \in Seq(Message)
  BY <1>3, InvParts DEF RestMade, EndpointOK, EndpointRecord
<1>6. Tail(endpoint[e].inbox) \in Seq(Message) /\ m \in Message
  BY <1>1, <1>3, <1>5, Beheaded
<1>7. m.native \in Natives /\ m.size \in Nat
  BY <1>6 DEF Message
<1>8. /\ EndpointOK(read) /\ read.made /\ read.listed = endpoint[e].listed /\ read.stopped = endpoint[e].stopped
      /\ read.events = endpoint[e].events /\ read.reported = endpoint[e].reported
  BY <1>2, <1>5, <1>6, InboxKeeps
<1>9. Resembles(read, e)
  BY <1>3, <1>8 DEF Resembles
<1>10. messages' \in 0..MaxMessages
  BY <1>4, InvParts DEF Functions
<1>11. CASE m.native \notin Peers(e) /\ Becomes(e, read, {})
  <2>1. endpoint' = [endpoint EXCEPT ![e] = read]
        /\ native' = [n \in Natives |-> IF read.stopped /\ native[n].owner = e THEN Closed(n) ELSE native[n]]
    BY <1>11 DEF Becomes
  <2>2. native' = native
    BY <1>3, <1>8, <2>1, InvParts DEF Functions
  <2> QED  BY <1>4, <1>8, <1>10, <2>1, <2>2, AsideStep
<1>12. CASE m.native \in Peers(e) /\ drop(e, read, m.native)
  <2>1. PICK n : n = m.native
    OBVIOUS
  <2>2. n \in Natives /\ native[n].owner = e /\ drop(e, read, n)
    BY <1>7, <1>12, <2>1 DEF Peers
  <2>3. /\ native[n].of = e /\ NotEnded(n, endpoint[e].events, seen[n])
        /\ ~(native[n].inbound /\ Awaits(n, callbacks'))
    BY <1>4, <2>2, PeerFacts
  <2>4. OtherChanges(n)
    BY <1>4, <2>2, NoChange
  <2> QED  BY <1>4, <1>9, <2>2, <2>3, <2>4, DropStep
<1>13. CASE /\ m.native \in Peers(e) /\ native[m.native].connected
            /\ \E ep \in push(read, Event("message", m.native, m.size)) : Becomes(e, ep, {})
  <2>1. PICK n : n = m.native
    OBVIOUS
  <2>2. PICK ev : ev = Event("message", n, m.size)
    OBVIOUS
  <2>3. n \in Natives /\ native[n].owner = e /\ native[n].connected
    BY <1>7, <1>13, <2>1 DEF Peers
  <2>4. PICK ep1 \in push(read, ev) : Becomes(e, ep1, {})
    BY <1>13, <2>1, <2>2
  <2>5. ev \in QueuedEvent /\ ev.peer = n /\ ev.kind = "message"
    BY <1>7, <2>2, <2>3 DEF Event, QueuedEvent
  <2>6. /\ native[n].of = e /\ native[n].state # "unused"
        /\ NativeOK(n, native[n], endpoint[e], seen[n], callbacks)
        /\ NotEnded(n, endpoint[e].events, seen[n])
    BY <2>3, PeerFacts
  <2>7. PICK c1 : c1 = native[n]
    OBVIOUS
  <2>8. PushMoves(e, n, ep1, c1)
    <3>1. /\ endpoint' = [endpoint EXCEPT ![e] = ep1]
          /\ native' = [k \in Natives |-> IF ep1.stopped /\ native[k].owner = e THEN Closed(k) ELSE native[k]]
      BY <2>4 DEF Becomes
    <3> QED  BY <2>3, <2>6, <2>7, <3>1 DEF PushMoves
  <2>9. OtherChanges(n)
    BY <1>4, <2>3, NoChange
  <2>10. ASSUME ~ep1.stopped, ep1.events = Append(endpoint[e].events, ev)
         PROVE  NativeOK(n, c1, ep1, seen[n], callbacks')
    <3>1. endpoint[e].events \in Seq(QueuedEvent) /\ Begun(n, endpoint[e].events, seen[n])
          /\ Story(n, endpoint[e].events, seen[n])
      BY <1>5, <2>3, <2>6, InUse DEF EndpointOK, EndpointRecord
    <3>2. Story(n, ep1.events, seen[n])
      BY <2>5, <2>6, <2>10, <3>1, StoryAppend
    <3>3. Begun(n, ep1.events, seen[n]) /\ NotEnded(n, ep1.events, seen[n])
      BY <2>5, <2>6, <2>10, <3>1, MoodAppend
    <3>4. ep1.made /\ ep1.reported = endpoint[e].reported
      BY <1>8, <1>9, <2>4, <2>5, PushCases DEF Resembles
    <3>5. ~(native[n].inbound /\ Awaits(n, callbacks)) /\ callbacks' = callbacks
      BY <1>4, <2>3, PeerFacts
    <3>6. NativeOK(n, native[n], ep1, seen[n], callbacks)
      BY <2>3, <2>6, <2>10, <3>2, <3>3, <3>4, <3>5 DEF NativeOK
    <3> QED  BY <2>7, <3>5, <3>6
  <2> QED  BY <1>4, <1>9, <2>3, <2>4, <2>5, <2>6, <2>8, <2>9, <2>10, PushStep
<1> QED  BY <1>3, <1>11, <1>12, <1>13
\* Only a status change goes, one that nobody waits for.
LEMMA ChangeStep ==
  ASSUME Inv, callbacks' \in Seq(Change),
         \A m \in Natives : Once(m, callbacks') /\ (Awaits(m, callbacks') <=> Awaits(m, callbacks)),
         UNCHANGED <<initialized, endpoint, native, poller, messages, seen>>
  PROVE  Inv'
<1>1. Functions' /\ PollersOK' /\ RestMade' /\ Endpoints' = Endpoints
  BY InvParts DEF Functions, PollersOK, RestMade, Endpoints
<1>2. \A e \in Ids : AtHome(e)' /\ PeersOK(e)'
  BY InvParts DEF AtHome, PeersOK, Peers
<1>3. \A m \in Natives : NativeOK(m, native[m], endpoint[native[m].of], seen[m], callbacks')
  BY InvParts, ChangesAside
<1> QED  BY <1>1, <1>2, <1>3, InvParts DEF Inv

\* A peer's first status change goes.
LEMMA ChangeDone ==
  ASSUME NEW n, NEW c, NEW ep, NEW said, NEW changes, NEW new, NativeOK(n, c, ep, said, changes),
         c.owner # 0, c.state # "unused", Once(n, new), ~Awaits(n, new)
  PROVE  NativeOK(n, c, ep, said, new)
BY DEF NativeOK

\* Connection n is closed, and no one is told.
LEMMA CloseStep ==
  ASSUME Inv, NEW n \in Natives, native[n].state # "unused", OtherChanges(n), ~Awaits(n, callbacks'),
         native' = [native EXCEPT ![n] = Closed(n)],
         UNCHANGED <<initialized, endpoint, poller, messages, seen>>
  PROVE  Inv'
<1>1. PICK e : e = native[n].of
  OBVIOUS
<1>2. NativeOK(n, native[n], endpoint[e], seen[n], callbacks)
  BY <1>1, InvParts
<1>3. e \in Ids /\ endpoint[e].made /\ native[n] \in NativeRecord
  BY <1>1, <1>2, InUse
<1>4. PICK c1 : c1 = Shut(native[n])
  OBVIOUS
<1>5. c1 = Closed(n) /\ c1.of = e /\ c1.owner = 0
  BY <1>1, <1>3, <1>4, ShutFields DEF Closed, Shut
<1>6. NativeOK(n, c1, endpoint[e], seen[n], callbacks')
  BY <1>2, <1>4, ClosedQuietly DEF OtherChanges
<1> QED  BY <1>1, <1>3, <1>5, <1>6, ConnectionStep

\* accept(): the connection becomes a peer.
LEMMA AcceptStep ==
  ASSUME Inv, NEW e \in Ids, NEW n \in Natives, native[n].of = e, native[n].owner = 0, native[n].inbound,
         ~endpoint[e].stopped, Awaits(n, callbacks), native[n].state = "connecting",
         Cardinality(Peers(e)) < MaxPeers, native' = [native EXCEPT ![n].owner = e],
         OtherChanges(n), ~Awaits(n, callbacks'), UNCHANGED <<initialized, endpoint, poller, messages, seen>>
  PROVE  Inv'
<1>1. PICK c1 : c1 = [native[n] EXCEPT !.owner = e]
  OBVIOUS
<1>2. NativeOK(n, native[n], endpoint[e], seen[n], callbacks)
  BY InvParts
<1>3. /\ native[n] \in NativeRecord /\ endpoint[e].made /\ Story(n, endpoint[e].events, seen[n])
      /\ \A i \in 1..Len(seen[n]) : seen[n][i] = "overflow" => endpoint[e].reported
      /\ ~native[n].connected /\ e # 0 /\ Quiet(n, endpoint[e].events, seen[n])
  BY <1>2, Constants DEF NativeOK
<1>4. /\ c1 \in NativeRecord /\ c1.owner = e /\ c1.of = e /\ c1.state = "connecting"
      /\ ~c1.connected
  BY <1>1, <1>3 DEF NativeRecord
<1>5. Once(n, callbacks') /\ c1.state \in Open
  BY <1>4 DEF OtherChanges, Open
<1>6. NativeOK(n, c1, endpoint[e], seen[n], callbacks')
  BY <1>3, <1>4, <1>5 DEF NativeOK
<1>7. native' = [native EXCEPT ![n] = c1]
  BY <1>1
<1> QED  BY <1>3, <1>4, <1>6, <1>7, ConnectionStep

\* CONNECTED is queued.
LEMMA ConnectedStep ==
  ASSUME Inv, NEW e \in Ids, NEW n \in Natives, native[n].owner = e, ~native[n].connected,
         NEW ep1 \in push(endpoint[e], Event("connected", n, 0)),
         endpoint' = [endpoint EXCEPT ![e] = ep1],
         native' = [m \in Natives |->
                     IF ep1.stopped /\ native[m].owner = e THEN Closed(m)
                     ELSE IF m = n THEN [native[m] EXCEPT !.connected = TRUE] ELSE native[m]],
         OtherChanges(n), Awaits(n, callbacks') => Awaits(n, callbacks),
         UNCHANGED <<initialized, poller, messages, seen>>
  PROVE  Inv'
<1>1. PICK c1 : c1 = [native[n] EXCEPT !.connected = TRUE]
  OBVIOUS
<1>2. PICK ev : ev = Event("connected", n, 0)
  OBVIOUS
<1>3. ev \in QueuedEvent /\ ev.peer = n /\ ev.kind = "connected" /\ ep1 \in push(endpoint[e], ev)
  BY <1>2 DEF Event, QueuedEvent
<1>4. /\ native[n].of = e /\ native[n].state # "unused" /\ Resembles(endpoint[e], e)
      /\ NativeOK(n, native[n], endpoint[e], seen[n], callbacks)
      /\ NotEnded(n, endpoint[e].events, seen[n]) /\ ~(native[n].inbound /\ Awaits(n, callbacks))
  BY PeerFacts
<1>5. /\ native[n] \in NativeRecord /\ endpoint[e].made /\ Story(n, endpoint[e].events, seen[n])
      /\ \A i \in 1..Len(seen[n]) : seen[n][i] = "overflow" => endpoint[e].reported
      /\ Quiet(n, endpoint[e].events, seen[n]) /\ native[n].state \in Open /\ e # 0 /\ e \in Ids
  BY <1>4, InUse, Constants
<1>6. /\ c1 \in NativeRecord /\ c1.owner = e /\ c1.of = e /\ c1.state = native[n].state
      /\ c1.inbound = native[n].inbound
  BY <1>1, <1>4, <1>5 DEF NativeRecord
<1>7. PushMoves(e, n, ep1, c1)
  BY <1>1, <1>6 DEF PushMoves
<1>8. ASSUME ~ep1.stopped, ep1.events = Append(endpoint[e].events, ev)
      PROVE  NativeOK(n, c1, ep1, seen[n], callbacks')
  <2>1. endpoint[e].events \in Seq(QueuedEvent)
    BY InvParts DEF EndpointOK, EndpointRecord
  <2>2. Story(n, ep1.events, seen[n])
    BY <1>3, <1>4, <1>5, <1>8, <2>1, StoryAppend
  <2>3. Begun(n, ep1.events, seen[n]) /\ NotEnded(n, ep1.events, seen[n])
    BY <1>3, <1>4, <1>5, <1>8, <2>1, MoodAppend
  <2>4. ep1.made /\ ep1.reported = endpoint[e].reported
    BY <1>3, <1>4, PushCases DEF Resembles
  <2>5. ~(c1.inbound /\ Awaits(n, callbacks')) /\ Once(n, callbacks')
    BY <1>4, <1>6 DEF OtherChanges
  <2>6. c1.connected
    BY <1>1, <1>5 DEF NativeRecord
  <2> QED  BY <1>4, <1>5, <1>6, <1>8, <2>2, <2>3, <2>4, <2>5, <2>6 DEF NativeOK
<1>9. PICK ep : ep = endpoint[e]
  OBVIOUS
<1>10. Resembles(ep, e) /\ ep1 \in push(ep, ev)
  BY <1>3, <1>4, <1>9
<1> QED  BY <1>3, <1>4, <1>7, <1>8, <1>10, PushStep

\* The callback failed: the endpoint overflows and the connection is closed.
LEMMA CallbackFails ==
  ASSUME Inv, NEW e \in Ids, NEW n \in Natives, native[n].of = e, endpoint[e].made,
         Becomes(e, overflow(endpoint[e]), {n}), OtherChanges(n),
         UNCHANGED <<initialized, poller, messages, seen>>
  PROVE  Inv'
<1>1. PICK ep1 : ep1 = overflow(endpoint[e])
  OBVIOUS
<1>2. /\ EndpointOK(ep1) /\ ep1.made /\ ep1.listed = endpoint[e].listed
      /\ ep1.reported = endpoint[e].reported /\ ep1.stopped /\ ep1.events = <<>>
  BY <1>1, InvParts, ShutDown
<1>3. endpoint' = [endpoint EXCEPT ![e] = ep1]
  BY <1>1 DEF Becomes
<1>4. native' = [m \in Natives |-> IF m \in {n} \/ native[m].owner = e THEN Closed(m) ELSE native[m]]
  BY <1>1, <1>2 DEF Becomes
<1>5. \A m \in Natives : /\ native[m] \in NativeRecord /\ Closed(m) = Shut(native[m])
                         /\ Closed(m).owner = 0 /\ Closed(m).of = native[m].of
  <2> TAKE m \in Natives
  <2>1. native[m] \in NativeRecord /\ Closed(m) = Shut(native[m])
    BY InvParts DEF NativeOK, Closed, Shut
  <2> QED  BY <2>1, ShutFields
<1>6. PICK c1 : c1 = Closed(n)
  OBVIOUS
<1>7. ConnectionMoves(e, n, c1)
  BY <1>4, <1>5, <1>6 DEF ConnectionMoves
<1>8. OthersMove(e, n, ep1)
  BY <1>2, <1>4, <1>5, Constants DEF OthersMove
<1>9. EndpointMoves(e, n, ep1)
  BY <1>2 DEF EndpointMoves
<1>10. NativeOK(n, c1, ep1, seen[n], callbacks')
  <2>1. NativeOK(n, native[n], endpoint[e], seen[n], callbacks) /\ native[n].state # "unused"
    BY InvParts, Homes
  <2> QED  BY <1>2, <1>5, <1>6, <2>1, ShutWithEndpoint DEF OtherChanges
<1> QED  BY <1>3, <1>7, <1>8, <1>9, <1>10, Step
\* A status change reaches its owner.
LEMMA OnStatusKeeps ==
  ASSUME Inv, NEW e \in Ids, NEW n \in Natives, NEW s \in {"connecting", "connected", "lost"},
         owns(e, n), on_status(e, n, s), OtherChanges(n),
         Awaits(n, callbacks') <=> Awaits(n, callbacks) /\ s # "connecting",
         s = "connecting" => Awaits(n, callbacks),
         UNCHANGED <<initialized, poller, messages, seen>>
  PROVE  Inv'
<1>1. /\ ~endpoint[e].stopped /\ native[n].of = e
      /\ n \in Peers(e) <=> native[n].owner = e
      /\ native[n].owner # e => native[n].inbound
  BY Homes DEF owns, Peers
<1>2. NativeOK(n, native[n], endpoint[e], seen[n], callbacks) /\ native[n].state # "unused"
  BY <1>1, InvParts, Homes
<1>3. /\ endpoint[e].made /\ native[n].owner \in {0, e}
      /\ native[n].inbound /\ Awaits(n, callbacks) => NotEnded(n, endpoint[e].events, seen[n])
  BY <1>1, <1>2, InUse
<1>4. Resembles(endpoint[e], e)
  BY <1>1, <1>3, InvParts DEF Resembles
<1>5. ASSUME drop(e, endpoint[e], n), NotEnded(n, endpoint[e].events, seen[n]),
             ~(native[n].inbound /\ Awaits(n, callbacks'))
      PROVE  Inv'
  <2>1. PICK ep : ep = endpoint[e]
    OBVIOUS
  <2>2. Resembles(ep, e) /\ drop(e, ep, n)
    BY <1>4, <1>5, <2>1
  <2> QED  BY <1>1, <1>5, <2>2, DropStep
<1>6. CASE /\ s = "connecting" /\ n \notin Peers(e) /\ Cardinality(Peers(e)) < MaxPeers
           /\ native[n].state = "connecting"
           /\ native' = [native EXCEPT ![n].owner = e] /\ UNCHANGED endpoint
  BY <1>1, <1>3, <1>6, AcceptStep
<1>7. CASE s = "connecting" /\ n \notin Peers(e) /\ drop(e, endpoint[e], n)
  BY <1>1, <1>3, <1>5, <1>7
<1>8. CASE /\ s = "connecting" /\ n \notin Peers(e)
           /\ native' = [native EXCEPT ![n] = Closed(n)] /\ UNCHANGED endpoint
  BY <1>2, <1>8, CloseStep
<1>9. CASE s = "connecting" /\ n \in Peers(e) /\ UNCHANGED <<endpoint, native>>
  <2>1. native' = [native EXCEPT ![n] = native[n]] /\ native[n].owner # 0
    BY <1>1, <1>9, InvParts, Constants DEF Functions
  <2>2. NativeOK(n, native[n], endpoint[e], seen[n], callbacks')
    BY <1>2, <1>9, <2>1, ChangeDone DEF OtherChanges
  <2>3. PICK c1 : c1 = native[n]
    OBVIOUS
  <2>4. native' = [native EXCEPT ![n] = c1] /\ NativeOK(n, c1, endpoint[e], seen[n], callbacks')
        /\ c1.of = e /\ native[n].of \in {0, e} /\ c1.owner \in {0, native[n].owner}
    BY <1>1, <2>1, <2>2, <2>3
  <2>5. UNCHANGED <<initialized, endpoint, poller, messages, seen>>
    BY <1>9
  <2> QED  BY <1>3, <2>4, <2>5, ConnectionStep
<1>10. CASE s # "connecting" /\ n \notin Peers(e) /\ UNCHANGED <<endpoint, native>>
  BY <1>10, ChangeStep DEF OtherChanges
<1>11. CASE s # "connecting" /\ n \in Peers(e) /\ drop(e, endpoint[e], n)
  BY <1>1, <1>5, <1>11, PeerFacts
<1>12. CASE /\ s = "connected" /\ n \in Peers(e) /\ ~native[n].connected
            /\ \E ep \in push(endpoint[e], Event("connected", n, 0)) :
                 /\ endpoint' = [endpoint EXCEPT ![e] = ep]
                 /\ native' = [m \in Natives |->
                      IF ep.stopped /\ native[m].owner = e THEN Closed(m)
                      ELSE IF m = n THEN [native[m] EXCEPT !.connected = TRUE] ELSE native[m]]
  <2>1. PICK ep \in push(endpoint[e], Event("connected", n, 0)) :
          /\ endpoint' = [endpoint EXCEPT ![e] = ep]
          /\ native' = [m \in Natives |->
               IF ep.stopped /\ native[m].owner = e THEN Closed(m)
               ELSE IF m = n THEN [native[m] EXCEPT !.connected = TRUE] ELSE native[m]]
    BY <1>12
  <2>2. native[n].owner = e /\ ~native[n].connected
    BY <1>1, <1>12
  <2> QED  BY <2>1, <2>2, ConnectedStep
<1>13. CASE s = "connecting" /\ n \notin Peers(e) /\ Becomes(e, overflow(endpoint[e]), {n})
  BY <1>1, <1>3, <1>13, CallbackFails
<1> QED  BY <1>6, <1>7, <1>8, <1>9, <1>10, <1>11, <1>12, <1>13 DEF on_status

LEMMA StatusChangedKeeps ==
  ASSUME Inv, NEW t \in Pollers, status_changed(t) PROVE Inv'
<1>1. PICK n : n = Head(callbacks).native
  OBVIOUS
<1>2. PICK s : s = Head(callbacks).state
  OBVIOUS
<1>3. callbacks # <<>> /\ callbacks' = Tail(callbacks)
  BY DEF status_changed
<1>4. UNCHANGED <<initialized, poller, messages, seen>>
  BY DEF status_changed
<1>5. /\ n \in Natives /\ s \in {"connecting", "connected", "lost"} /\ OtherChanges(n)
      /\ Awaits(n, callbacks') <=> Awaits(n, callbacks) /\ s # "connecting"
      /\ s = "connecting" => Awaits(n, callbacks)
  BY <1>1, <1>2, <1>3, Going
<1>6. \/ \E e \in Ids : owns(e, n) /\ on_status(e, n, s)
      \/ /\ native' = IF s = "connecting" THEN [native EXCEPT ![n] = Closed(n)] ELSE native
         /\ UNCHANGED endpoint
  BY <1>1, <1>2 DEF status_changed, Endpoints
<1>7. CASE \E e \in Ids : owns(e, n) /\ on_status(e, n, s)
  <2>1. PICK e \in Ids : owns(e, n) /\ on_status(e, n, s)
    BY <1>7
  <2> QED  BY <1>4, <1>5, <2>1, OnStatusKeeps
<1>8. CASE UNCHANGED endpoint /\ s = "connecting" /\ native' = [native EXCEPT ![n] = Closed(n)]
  <2>1. native[n].state # "unused"
    BY <1>5, <1>8, InvParts DEF NativeOK
  <2> QED  BY <1>4, <1>5, <1>8, <2>1, CloseStep
<1>9. CASE UNCHANGED endpoint /\ s # "connecting" /\ native' = native
  BY <1>4, <1>5, <1>9, ChangeStep DEF OtherChanges
<1> QED  BY <1>6, <1>7, <1>8, <1>9
-----------------------------------------------------------------------------
LEMMA InitInv == Init => Inv
<1> SUFFICES ASSUME Init PROVE Inv
  OBVIOUS
<1>1. Functions
  <2>1. <<>> \in Seq(Change) /\ 0 \in 0..MaxMessages
    BY Constants
  <2> QED  BY <2>1 DEF Init, Functions
<1>2. PollersOK /\ RestMade
  <2>1. NotPolling \in PollerRecord /\ NotPolling.at = "idle" /\ NotPolling.at \notin Holding
        /\ NotPolling.rest = {}
    BY DEF NotPolling, PollerRecord, Holding
  <2>2. \A t \in Pollers : poller[t] = NotPolling
    BY DEF Init
  <2>3. poller \in [Pollers -> PollerRecord]
    BY <2>1 DEF Init
  <2> QED  BY <2>1, <2>2, <2>3 DEF PollersOK, RestMade
<1>3. \A e \in Ids : endpoint[e] = NoEndpoint
  BY DEF Init
<1>4. \A n \in Natives : native[n] = NoNative /\ seen[n] = <<>> /\ callbacks = <<>>
  BY DEF Init
<1>5. initialized = (Endpoints # {})
  <2>1. ~NoEndpoint.listed
    BY DEF NoEndpoint
  <2>2. Endpoints = {}
    BY <1>3, <2>1 DEF Endpoints
  <2> QED  BY <2>2 DEF Init
<1>6. \A e \in Ids : EndpointOK(endpoint[e]) /\ AtHome(e)
  BY <1>3, NothingYet DEF AtHome
<1>7. ASSUME NEW e \in Ids PROVE PeersOK(e)
  <2>1. NoNative.owner = 0
    BY DEF NoNative
  <2>2. Peers(e) = {}
    BY <1>4, <2>1, Constants DEF Peers
  <2> QED  BY <2>2, FS_EmptySet, Constants DEF PeersOK
<1>8. ASSUME NEW n \in Natives PROVE NativeOK(n, native[n], endpoint[native[n].of], seen[n], callbacks)
  <2>1. NoNative \in NativeRecord /\ NoNative.state = "unused"
    BY DEF NoNative, NativeRecord
  <2>2. Once(n, <<>>) /\ ~Awaits(n, <<>>)
    BY DEF Once, Awaits
  <2> QED  BY <1>4, <2>1, <2>2 DEF NativeOK
<1> QED  BY <1>1, <1>2, <1>5, <1>6, <1>7, <1>8 DEF Inv

LEMMA NextInv == Inv /\ [Next]_vars => Inv'
<1> SUFFICES ASSUME Inv, [Next]_vars PROVE Inv'
  OBVIOUS
<1>1. CASE UNCHANGED vars
  <2>1. UNCHANGED <<initialized, endpoint, native, callbacks, poller, messages, seen>>
    BY <1>1 DEF vars
  <2>2. PollersOK' /\ RestsKept
    BY <2>1, InvParts DEF PollersOK, RestsKept
  <2> QED  BY <2>1, <2>2, PollerStep
<1>2. ASSUME NEW e \in Ids, create(e) \/ listen(e) \/ destroy(e) PROVE Inv'
  BY <1>2, CreateKeeps, ListenKeeps, DestroyKeeps
<1>3. ASSUME NEW e \in Ids, NEW n \in Natives, connect(e, n) \/ disconnect(e, n) \/ GnsInbound(e, n) PROVE Inv'
  BY <1>3, ConnectKeeps, DisconnectKeeps, GnsInboundKeeps
<1>4. ASSUME NEW n \in Natives, GnsConnected(n) \/ GnsLost(n) PROVE Inv'
  BY <1>4, GnsKeeps
<1>5. ASSUME NEW n \in Natives, NEW size \in Sizes, GnsMessage(n, size) PROVE Inv'
  BY <1>5, GnsMessageKeeps
<1>6. ASSUME NEW t \in Pollers, take(t) \/ TakesNothing(t) \/ Wakes(t) PROVE Inv'
  BY <1>6, TakeKeeps, TakesNothingKeeps, WakesKeeps
<1>7. ASSUME NEW t \in Pollers, status_changed(t) \/ CallbacksDone(t) \/ PumpDone(t) PROVE Inv'
  BY <1>7, StatusChangedKeeps, CallbacksDoneKeeps, PumpDoneKeeps
<1>8. ASSUME NEW t \in Pollers, NEW e \in Ids,
             poll(t, e) \/ receive(t, e) \/ ReceiveFails(t, e) \/ Received(t, e)
      PROVE  Inv'
  BY <1>8, PollKeeps, ReceiveKeeps, ReceiveFailsKeeps, ReceivedKeeps
<1> QED  BY <1>1, <1>2, <1>3, <1>4, <1>5, <1>6, <1>7, <1>8 DEF Next

\* The invariant holds in every state: in particular an endpoint's queue, what
\* polls returned and what the connection became tell one story of each peer.
THEOREM Invariant == Spec => []Inv
BY InitInv, NextInv, PTL DEF Spec

\* Polls return the events of a peer in order: CONNECTED first and once,
\* messages after it, DISCONNECTED once and last, and nothing after OVERFLOW;
\* whatever the GNS threads did between the pumps.
THEOREM EventsComeInOrder == Spec => []EventsInOrder
<1>1. Inv => EventsInOrder
  <2> SUFFICES ASSUME Inv, NEW n \in Natives, NEW i \in DOMAIN seen[n]
               PROVE  /\ seen[n][i] = "connected" => i = 1
                      /\ seen[n][i] = "message" => seen[n][1] = "connected"
                      /\ seen[n][i] \in {"disconnected", "overflow"} =>
                           \A j \in (i + 1)..Len(seen[n]) : seen[n][i] = "disconnected" /\ seen[n][j] = "overflow"
    BY DEF EventsInOrder
  <2>1. NativeOK(n, native[n], endpoint[native[n].of], seen[n], callbacks)
    BY InvParts
  <2>2. CASE native[n].state = "unused"
    <3>1. seen[n] = <<>>
      BY <2>1, <2>2 DEF NativeOK
    <3> QED  BY <3>1
  <2>3. CASE native[n].state # "unused"
    <3>1. seen[n] \in Seq(Kinds) /\ Ordered(seen[n])
      BY <2>1, <2>3, InUse DEF Story
    <3>2. i \in 1..Len(seen[n])
      BY <3>1
    <3> QED  BY <3>1, <3>2 DEF Ordered, Ended
  <2> QED  BY <2>2, <2>3
<1> QED  BY <1>1, Invariant, PTL

\* GNS lives exactly as long as there are endpoints, queues and peer tables keep
\* their limits, the byte count of a queue is exact, a stopped endpoint has no
\* peers, one poll at a time has the mutex, and every open native connection is
\* a peer or has its first status change to come, so none is leaked.
THEOREM ResourcesAreExact == Spec => []ResourcesExact
<1>1. Inv => ResourcesExact
  <2> SUFFICES ASSUME Inv PROVE ResourcesExact
    OBVIOUS
  <2>1. TypeOK
    <3>1. initialized \in BOOLEAN /\ messages \in 0..MaxMessages
      BY InvParts DEF Functions
    <3>2. ASSUME NEW e \in Ids
          PROVE  /\ endpoint[e].stopped \in BOOLEAN /\ endpoint[e].overflow \in BOOLEAN
                 /\ endpoint[e].reported => endpoint[e].overflow
                 /\ endpoint[e].events \in Seq([kind : {"connected", "message", "disconnected"},
                                                peer : Natives, size : Nat])
      BY InvParts DEF EndpointOK, EndpointRecord, QueuedEvent
    <3>3. ASSUME NEW n \in Natives
          PROVE  native[n].state \in Open \cup {"unused", "closed"} /\ native[n].owner \in Ids \cup {0}
      <4>1. native[n] \in NativeRecord
        BY InvParts DEF NativeOK
      <4> QED  BY <4>1 DEF NativeRecord
    <3>4. \A t \in Pollers : poller[t].at \in Holding \cup {"idle", "wait"}
      <4> TAKE t \in Pollers
      <4>1. poller[t] \in PollerRecord
        BY InvParts DEF PollersOK
      <4> QED  BY <4>1 DEF PollerRecord
    <3>5. Cardinality({t \in Pollers : poller[t].at \in Holding}) <= 1
      <4> DEFINE H == {t \in Pollers : poller[t].at \in Holding}
      <4>1. CASE H = {}
        BY <4>1, FS_EmptySet
      <4>2. CASE H # {}
        <5>1. PICK t : t \in H
          BY <4>2
        <5>2. H = {t}
          BY <5>1, InvParts DEF PollersOK
        <5>3. Cardinality(H) = 1
          BY <5>2, FS_Singleton
        <5> QED  BY <5>3
      <4> QED  BY <4>1, <4>2
    <3> QED  BY <3>1, <3>2, <3>3, <3>4, <3>5 DEF TypeOK
  <2>2. initialized = (Endpoints # {})
    BY InvParts
  <2>3. ASSUME NEW e \in Ids
        PROVE  /\ Accounted(endpoint[e].events, endpoint[e].bytes)
               /\ Cardinality(Peers(e)) <= MaxPeers
               /\ Peers(e) # {} => e \in Endpoints /\ ~endpoint[e].stopped
    <3>1. EndpointOK(endpoint[e]) /\ PeersOK(e)
      BY InvParts
    <3>2. ASSUME Peers(e) # {} PROVE e \in Endpoints /\ ~endpoint[e].stopped
      <4>1. PICK n \in Natives : native[n].owner = e
        BY <3>2 DEF Peers
      <4>2. ~endpoint[e].stopped /\ endpoint[e].made
        BY <4>1, PeerFacts DEF Resembles
      <4> QED  BY <3>1, <4>2 DEF EndpointOK, Endpoints
    <3> QED  BY <3>1, <3>2 DEF EndpointOK, PeersOK
  <2>4. ASSUME NEW n \in Natives, native[n].state \in Open, native[n].owner = 0
        PROVE  \E i \in DOMAIN callbacks : callbacks[i] = [native |-> n, state |-> "connecting"]
    <3>1. native[n].state # "unused" /\ NativeOK(n, native[n], endpoint[native[n].of], seen[n], callbacks)
      BY <2>4, InvParts DEF Open
    <3>2. Awaits(n, callbacks) /\ callbacks \in Seq(Change)
      BY <2>4, <3>1, InUse, InvParts DEF Functions
    <3> QED  BY <3>2 DEF Awaits, FirstChange
  <2> QED  BY <2>1, <2>2, <2>3, <2>4 DEF ResourcesExact
<1> QED  BY <1>1, Invariant, PTL
=============================================================================
